---- MODULE Spec2Model ----
(***************************************************************************)
(* Model of the IPC trading system: the length-framed JSON message         *)
(* protocol (src/utils/protocol.py), the shared-memory order-book store    *)
(* (src/utils/shared_memory.py) and the Strategy signal engine             *)
(* (src/processes/strategy.py).                                            *)
(*                                                                         *)
(* Bytes are integers 0..255.  JSON values are tagged records:             *)
(*   [k |-> "int",   v |-> n]                                              *)
(*   [k |-> "float", s |-> 1 or -1, i |-> Nat, f |-> <<digits>>]           *)
(*   [k |-> "str",   v |-> <<bytes>>]                                      *)
(*   [k |-> "list",  v |-> <<values>>]                                     *)
(*   [k |-> "dict",  v |-> << <<key bytes, value>>, ... >>]                *)
(* Floating point is modelled by exact decimals.                           *)
(***************************************************************************)
EXTENDS Integers, Sequences, FiniteSets, TLC

\* ------------------------------------------------------------------------
\* Bounds of the model
\* ------------------------------------------------------------------------
\* longest list a generated payload value holds
MaxList == 2
\* number of frames the sender puts on one stream
MaxMsgs == 2
\* segment size in bytes.  The source sizes the segment at 1024 * 64; the model
\* scales it down to the 16-byte header plus room for a book of three levels
\* ({"bids": [[2.0, 1.0], [1.0, 1.0]], "asks": [[1.0, 1.0]]} is 56 bytes), so
\* that writes that fit exactly and writes that do not fit both happen
MEMORY_SIZE == 72
\* number of write_orderbook calls on one segment
MaxWrites == 3
\* number of write_orderbook calls while a second handle reads the segment
MaxSharedWrites == 2
\* number of feed messages the Strategy processes
MaxFeed == 5
\* number of whole frames a peer sends before it closes the stream
MaxClosedMsgs == 1
\* number of OrderBookSharedMemory(...) constructor calls on one name
MaxOpens == 2
\* number of write_orderbook calls in the life of the segments of one name
MaxSegWrites == 2
\* number of ORDER messages one connection of the OrderManager reads
MaxOrders == 2
\* number of MARKET_DATA messages the OrderBook processes
MaxBookMsgs == 2
\* number of frames the peer sends on the stream a run loop reads
MaxFrames == 2

\* ------------------------------------------------------------------------
\* Bytes and small helpers
\* ------------------------------------------------------------------------
Ch == [quote |-> 34, comma |-> 44, minus |-> 45, dot |-> 46, slash |-> 47,
       zero |-> 48, colon |-> 58, lbrack |-> 91, backslash |-> 92,
       rbrack |-> 93, lbrace |-> 123, rbrace |-> 125, space |-> 32]

Min(a, b) == IF a < b THEN a ELSE b

SubSeqFrom(s, i) == SubSeq(s, i, Len(s))

Take(s, n) == SubSeq(s, 1, n)

Drop(s, n) == SubSeq(s, n + 1, Len(s))

RECURSIVE Concat(_)
Concat(ss) == IF ss = <<>> THEN <<>> ELSE Head(ss) \o Concat(Tail(ss))

\* ------------------------------------------------------------------------
\* JSON values
\* ------------------------------------------------------------------------
JInt(n) == [k |-> "int", v |-> n]

JFloat(sg, ip, fr) == [k |-> "float", s |-> sg, i |-> ip, f |-> fr]

JStr(bs) == [k |-> "str", v |-> bs]

JList(vs) == [k |-> "list", v |-> vs]

JDict(kvs) == [k |-> "dict", v |-> kvs]

\* True, False, None, nan, inf and -inf, named by their JSON text
JConst(name) == [k |-> "const", v |-> name]

\* the bytes of the six literals of json.dumps / json.loads
ConstBytes ==
    [c \in {"true", "false", "null", "NaN", "Infinity", "-Infinity"} |->
        CASE c = "true"      -> <<116, 114, 117, 101>>
          [] c = "false"     -> <<102, 97, 108, 115, 101>>
          [] c = "null"      -> <<110, 117, 108, 108>>
          [] c = "NaN"       -> <<78, 97, 78>>
          [] c = "Infinity"  -> <<73, 110, 102, 105, 110, 105, 116, 121>>
          [] c = "-Infinity" -> <<45, 73, 110, 102, 105, 110, 105, 116, 121>>]

\* ------------------------------------------------------------------------
\* json.dumps (default separators ", " and ": ", ensure_ascii)
\* ------------------------------------------------------------------------
RECURSIVE NatDigits(_)
NatDigits(n) ==
    IF n < 10 THEN <<Ch.zero + n>>
    ELSE Append(NatDigits(n \div 10), Ch.zero + (n % 10))

IntRepr(n) == IF n < 0 THEN <<Ch.minus>> \o NatDigits(-n) ELSE NatDigits(n)

FloatRepr(x) ==
    (IF x.s < 0 THEN <<Ch.minus>> ELSE <<>>) \o NatDigits(x.i) \o <<Ch.dot>>
        \o [j \in 1..Len(x.f) |-> Ch.zero + x.f[j]]

\* py_encode_basestring_ascii: the short escapes of the JSON grammar
EscapeByte(b) ==
    CASE b = Ch.quote     -> <<Ch.backslash, Ch.quote>>
      [] b = Ch.backslash -> <<Ch.backslash, Ch.backslash>>
      [] b = 10           -> <<Ch.backslash, 110>>
      [] b = 13           -> <<Ch.backslash, 114>>
      [] b = 9            -> <<Ch.backslash, 116>>
      [] b = 8            -> <<Ch.backslash, 98>>
      [] b = 12           -> <<Ch.backslash, 102>>
      [] OTHER            -> <<b>>

StrRepr(bs) ==
    <<Ch.quote>> \o Concat([j \in 1..Len(bs) |-> EscapeByte(bs[j])]) \o <<Ch.quote>>

RECURSIVE JoinComma(_)
JoinComma(parts) ==
    IF parts = <<>> THEN <<>>
    ELSE IF Len(parts) = 1 THEN parts[1]
    ELSE parts[1] \o <<Ch.comma, Ch.space>> \o JoinComma(Tail(parts))

RECURSIVE Dumps(_)
Dumps(x) ==
    CASE x.k = "int"   -> IntRepr(x.v)
      [] x.k = "float" -> FloatRepr(x)
      [] x.k = "str"   -> StrRepr(x.v)
      [] x.k = "const" -> ConstBytes[x.v]
      [] x.k = "list"  ->
            <<Ch.lbrack>> \o JoinComma([j \in 1..Len(x.v) |-> Dumps(x.v[j])])
                \o <<Ch.rbrack>>
      [] x.k = "dict"  ->
            <<Ch.lbrace>>
                \o JoinComma([j \in 1..Len(x.v) |->
                       StrRepr(x.v[j][1]) \o <<Ch.colon, Ch.space>> \o Dumps(x.v[j][2])])
                \o <<Ch.rbrace>>

\* ------------------------------------------------------------------------
\* json.loads (objects, arrays, strings with the short escapes, numbers
\* without exponent, the literals true, false, null, NaN, Infinity and
\* -Infinity; \uXXXX is rejected here)
\* ------------------------------------------------------------------------
ParseFail == [ok |-> FALSE, val |-> JInt(0), next |-> 0]

ParseOk(x, n) == [ok |-> TRUE, val |-> x, next |-> n]

IsWs(b) == b \in {32, 9, 10, 13}

IsDigit(b) == b >= Ch.zero /\ b <= Ch.zero + 9

RECURSIVE SkipWs(_, _)
SkipWs(s, i) == IF i <= Len(s) /\ IsWs(s[i]) THEN SkipWs(s, i + 1) ELSE i

RECURSIVE ScanDigits(_, _)
ScanDigits(s, i) == IF i <= Len(s) /\ IsDigit(s[i]) THEN ScanDigits(s, i + 1) ELSE i

RECURSIVE DigitsToNat(_)
DigitsToNat(ds) ==
    IF ds = <<>> THEN 0
    ELSE 10 * DigitsToNat(SubSeq(ds, 1, Len(ds) - 1)) + (ds[Len(ds)] - Ch.zero)

\* NUMBER_RE: (-?(?:0|[1-9]\d*))(\.\d+)?
ParseNumber(s, i) ==
    LET neg == i <= Len(s) /\ s[i] = Ch.minus
        j   == IF neg THEN i + 1 ELSE i
        e   == IF j <= Len(s) /\ s[j] = Ch.zero THEN j + 1 ELSE ScanDigits(s, j)
        ip  == DigitsToNat(SubSeq(s, j, e - 1))
        fe  == IF e <= Len(s) /\ s[e] = Ch.dot THEN ScanDigits(s, e + 1) ELSE e
    IN  IF e = j THEN ParseFail
        ELSE IF fe > e + 1
             THEN ParseOk(JFloat(IF neg THEN -1 ELSE 1, ip,
                                 [d \in 1..(fe - e - 1) |-> s[e + d] - Ch.zero]), fe)
             ELSE ParseOk(JInt(IF neg THEN -ip ELSE ip), e)

Unescape(b) ==
    CASE b = 110 -> 10
      [] b = 114 -> 13
      [] b = 116 -> 9
      [] b = 98  -> 8
      [] b = 102 -> 12
      [] OTHER   -> b

\* py_scanstring, strict: s[i] is the byte after the opening quote
RECURSIVE ScanString(_, _, _)
ScanString(s, i, acc) ==
    IF i > Len(s) THEN ParseFail
    ELSE IF s[i] = Ch.quote THEN ParseOk(JStr(acc), i + 1)
    ELSE IF s[i] = Ch.backslash
         THEN IF i + 1 <= Len(s)
                   /\ s[i + 1] \in {Ch.quote, Ch.backslash, Ch.slash, 110, 114, 116, 98, 102}
              THEN ScanString(s, i + 2, Append(acc, Unescape(s[i + 1])))
              ELSE ParseFail
    ELSE IF s[i] < 32 THEN ParseFail
    ELSE ScanString(s, i + 1, Append(acc, s[i]))

\* dict(pairs): a repeated key keeps its first position and its last value
DictPut(kvs, key, x) ==
    IF \E j \in 1..Len(kvs) : kvs[j][1] = key
    THEN [j \in 1..Len(kvs) |-> IF kvs[j][1] = key THEN <<key, x>> ELSE kvs[j]]
    ELSE Append(kvs, <<key, x>>)

\* s[i:i + len(lit)] == lit
StartsWith(s, i, lit) == i + Len(lit) - 1 <= Len(s) /\ SubSeq(s, i, i + Len(lit) - 1) = lit

\* scan_once: the literal that starts at s[i], "" when there is none; a number
\* is tried before NaN, Infinity and -Infinity
LiteralAt(s, i) ==
    IF StartsWith(s, i, ConstBytes["null"]) THEN "null"
    ELSE IF StartsWith(s, i, ConstBytes["true"]) THEN "true"
    ELSE IF StartsWith(s, i, ConstBytes["false"]) THEN "false"
    ELSE IF StartsWith(s, i, ConstBytes["NaN"]) THEN "NaN"
    ELSE IF StartsWith(s, i, ConstBytes["Infinity"]) THEN "Infinity"
    ELSE IF StartsWith(s, i, ConstBytes["-Infinity"]) THEN "-Infinity"
    ELSE ""

RECURSIVE ParseValue(_, _), ParseMembers(_, _, _), ParseElements(_, _, _)
\* scan_once
ParseValue(s, i) ==
    IF i > Len(s) THEN ParseFail
    ELSE IF s[i] = Ch.quote THEN ScanString(s, i + 1, <<>>)
    ELSE IF s[i] = Ch.lbrace
         THEN LET j == SkipWs(s, i + 1)
              IN  IF j <= Len(s) /\ s[j] = Ch.rbrace THEN ParseOk(JDict(<<>>), j + 1)
                  ELSE ParseMembers(s, j, <<>>)
    ELSE IF s[i] = Ch.lbrack
         THEN LET j == SkipWs(s, i + 1)
              IN  IF j <= Len(s) /\ s[j] = Ch.rbrack THEN ParseOk(JList(<<>>), j + 1)
                  ELSE ParseElements(s, j, <<>>)
    ELSE IF LiteralAt(s, i) # ""
         THEN ParseOk(JConst(LiteralAt(s, i)), i + Len(ConstBytes[LiteralAt(s, i)]))
    ELSE IF s[i] = Ch.minus \/ IsDigit(s[i]) THEN ParseNumber(s, i)
    ELSE ParseFail

\* JSONObject: s[i] must open the next key
ParseMembers(s, i, acc) ==
    IF i > Len(s) \/ s[i] # Ch.quote THEN ParseFail
    ELSE LET key == ScanString(s, i + 1, <<>>)
         IN  IF ~key.ok THEN ParseFail
             ELSE LET c == SkipWs(s, key.next)
                  IN  IF c > Len(s) \/ s[c] # Ch.colon THEN ParseFail
                      ELSE LET x == ParseValue(s, SkipWs(s, c + 1))
                           IN  IF ~x.ok THEN ParseFail
                               ELSE LET e   == SkipWs(s, x.next)
                                        now == DictPut(acc, key.val.v, x.val)
                                    IN  IF e > Len(s) THEN ParseFail
                                        ELSE IF s[e] = Ch.rbrace
                                             THEN ParseOk(JDict(now), e + 1)
                                        ELSE IF s[e] = Ch.comma
                                             THEN ParseMembers(s, SkipWs(s, e + 1), now)
                                        ELSE ParseFail

\* JSONArray
ParseElements(s, i, acc) ==
    LET x == ParseValue(s, i)
    IN  IF ~x.ok THEN ParseFail
        ELSE LET e   == SkipWs(s, x.next)
                 now == Append(acc, x.val)
             IN  IF e > Len(s) THEN ParseFail
                 ELSE IF s[e] = Ch.rbrack THEN ParseOk(JList(now), e + 1)
                 ELSE IF s[e] = Ch.comma THEN ParseElements(s, SkipWs(s, e + 1), now)
                 ELSE ParseFail

\* bytes.decode('utf-8') then json.loads: a non-ASCII byte, a syntax error or
\* trailing non-whitespace ("Extra data") all fail
Loads(s) ==
    IF \E j \in 1..Len(s) : s[j] >= 128 THEN ParseFail
    ELSE LET x == ParseValue(s, SkipWs(s, 1))
         IN  IF ~x.ok THEN ParseFail
             ELSE IF SkipWs(s, x.next) <= Len(s) THEN ParseFail
             ELSE x

\* ------------------------------------------------------------------------
\* Message protocol (src/utils/protocol.py)
\* ------------------------------------------------------------------------
\* most bytes one body recv asks for
RECV_MAX == 4096

\* MessageType: MARKET_DATA = 1 .. SHUTDOWN = 8
MessageType == 1..8

Message(t, d) == [msg_type |-> t, data |-> d]

\* the bytes of the keys 'type' and 'data'
KeyType == <<116, 121, 112, 101>>

KeyData == <<100, 97, 116, 97>>

\* struct.pack('>I', n)
Pack32(n) == <<(n \div 16777216) % 256, (n \div 65536) % 256, (n \div 256) % 256, n % 256>>

\* struct.unpack('>I', b)[0]
Unpack32(b) == b[1] * 16777216 + b[2] * 65536 + b[3] * 256 + b[4]

\* Message.serialize without the prefix: json.dumps({'type': .., 'data': ..})
BodyOf(m) == Dumps(JDict(<< <<KeyType, JInt(m.msg_type)>>, <<KeyData, m.data>> >>))

Serialize(m) == Pack32(Len(BodyOf(m))) \o BodyOf(m)

HasKey(d, key) == \E j \in 1..Len(d.v) : d.v[j][1] = key

DictGet(d, key) == d.v[CHOOSE j \in 1..Len(d.v) : d.v[j][1] = key][2]

\* MessageType(value): lookup by value; 1.0 == 1 and True == 1 in Python, so
\* an integral float and true find their member too
EnumValue(x) ==
    IF x.k = "int" THEN x.v
    ELSE IF x.k = "float" /\ x.s = 1 /\ \A j \in 1..Len(x.f) : x.f[j] = 0 THEN x.i
    ELSE IF x.k = "const" /\ x.v = "true" THEN 1
    ELSE 0

NoMessage == Message(0, JDict(<<>>))

DecodeFail(why) == [ok |-> FALSE, err |-> why, msg |-> NoMessage]

DecodeOk(m) == [ok |-> TRUE, err |-> "", msg |-> m]

\* faulty variant of Deserialize: the type tag of the body is ignored
DeserializeFixedType(data) ==
    LET x == Loads(data)
    IN  IF ~x.ok THEN DecodeFail("JSONDecodeError")
        ELSE IF x.val.k # "dict" THEN DecodeFail("TypeError")
        ELSE IF ~HasKey(x.val, KeyType) THEN DecodeFail("KeyError")
        ELSE IF ~HasKey(x.val, KeyData) THEN DecodeFail("KeyError")
        ELSE DecodeOk(Message(1, DictGet(x.val, KeyData)))

\* Message.deserialize: the frame body without its length prefix
Deserialize(data) ==
    LET x == Loads(data)
    IN  IF ~x.ok THEN DecodeFail("JSONDecodeError")
        ELSE IF x.val.k # "dict" THEN DecodeFail("TypeError")
        ELSE IF ~HasKey(x.val, KeyType) THEN DecodeFail("KeyError")
        ELSE IF EnumValue(DictGet(x.val, KeyType)) \notin MessageType
             THEN DecodeFail("ValueError")
        ELSE IF ~HasKey(x.val, KeyData) THEN DecodeFail("KeyError")
        ELSE DecodeOk(Message(EnumValue(DictGet(x.val, KeyType)), DictGet(x.val, KeyData)))

\* ------------------------------------------------------------------------
\* Inputs: JSON-compatible payloads
\* ------------------------------------------------------------------------
SeqsUpTo(S, n) == UNION {[1..m -> S] : m \in 0..n}

\* bytes of short strings: "", "A", a"\ (quote and backslash), x<newline>
SmallStrings == {<<>>, <<65>>, <<97, 34, 92>>, <<120, 10>>}

Atoms ==
    {JInt(n) : n \in {-7, 0, 150}}
        \cup {JFloat(1, 150, <<0>>), JFloat(-1, 0, <<2, 5>>)}
        \cup {JStr(b) : b \in SmallStrings}

Keys == {<<115>>, <<112, 34>>}

FlatLists == {JList(s) : s \in SeqsUpTo(Atoms, MaxList)}

Values1 == Atoms \cup FlatLists \cup {JDict(<< <<key, a>> >>) : key \in Keys, a \in Atoms}

Values2 == Values1 \cup {JList(<<x>>) : x \in Values1}

Payloads ==
    {JDict(<<>>)}
        \cup {JDict(<< <<key, x>> >>) : key \in Keys, x \in Values2}
        \cup {JDict(<< <<kk[1], a>>, <<kk[2], b>> >>) :
                 kk \in {q \in Keys \X Keys : q[1] # q[2]}, a \in Atoms, b \in FlatLists}

AllMessages == {Message(t, d) : t \in MessageType, d \in Payloads}


\* frames the sender of the stream specification chooses from: one per shape
\* (empty payload, nested lists of floats, negative float, escaped string)
StreamMessages ==
    { Message(7, JDict(<<>>)),
      Message(1, JDict(<< <<<<115>>, JStr(<<65>>)>>,
                          <<<<98>>, JList(<<JList(<<JFloat(1, 150, <<0>>), JInt(10)>>)>>)>> >>)),
      Message(2, JDict(<< <<<<115>>, JStr(<<65>>)>>, <<<<99>>, JFloat(-1, 0, <<2, 5>>)>> >>)),
      Message(4, JDict(<< <<<<105>>, JStr(<<97, 34, 92>>)>>, <<<<113>>, JInt(150)>> >>)),
      Message(8, JDict(<<>>)) }


\* ------------------------------------------------------------------------
\* Shared order-book store (src/utils/shared_memory.py)
\* ------------------------------------------------------------------------
HEADER_SIZE == 16

\* the bytes of the keys 'bids' and 'asks'
KeyBids == <<98, 105, 100, 115>>

KeyAsks == <<97, 115, 107, 115>>

\* struct.pack('>dII', timestamp, num_bids, num_asks): the header fields
Header(ts, nb, na) == [timestamp |-> ts, num_bids |-> nb, num_asks |-> na]

\* a segment as the operating system hands it out: zero-filled
ZeroHeader == Header(0, 0, 0)

ZeroPayload == [j \in 1..(MEMORY_SIZE - HEADER_SIZE) |-> 0]

\* lines 74-77: {'bids': [[price, size], ...], 'asks': [[price, size], ...]}
LevelsJson(levels) == JList([j \in 1..Len(levels) |-> JList(<<levels[j][1], levels[j][2]>>)])

\* line 78: json.dumps(data).encode('utf-8')
EncodeBook(bids, asks) ==
    Dumps(JDict(<< <<KeyBids, LevelsJson(bids)>>, <<KeyAsks, LevelsJson(asks)>> >>))

\* line 81: the payload does not fit behind the header
TooLarge(json_bytes) == Len(json_bytes) > MEMORY_SIZE - HEADER_SIZE

\* line 88: buf[HEADER_SIZE:HEADER_SIZE + len(json_bytes)] = json_bytes; the
\* bytes behind the new payload keep what they held
PayloadAfterWrite(payload, json_bytes) ==
    [j \in 1..Len(payload) |-> IF j <= Len(json_bytes) THEN json_bytes[j] ELSE payload[j]]

\* lines 111-116: the payload region up to its first null byte, all of it when
\* it holds none
UpToNull(payload) ==
    IF \E j \in 1..Len(payload) : payload[j] = 0
    THEN Take(payload, (CHOOSE j \in 1..Len(payload) :
                            payload[j] = 0 /\ \A h \in 1..(j - 1) : payload[h] # 0) - 1)
    ELSE payload

NoSnapshot == [kind |-> "none", timestamp |-> 0, bids |-> <<>>, asks |-> <<>>]

Snapshot(ts, bids, asks) == [kind |-> "snapshot", timestamp |-> ts, bids |-> bids, asks |-> asks]

\* read_orderbook raised (KeyError, TypeError or ValueError of lines 125-129)
ReadRaised == [kind |-> "raise", timestamp |-> 0, bids |-> <<>>, asks |-> <<>>]

\* lines 127-128: [(price, size) for price, size in data[...]] unpacks lists of
\* two items
IsLevelList(x) ==
    /\ x.k = "list"
    /\ \A j \in 1..Len(x.v) : x.v[j].k = "list" /\ Len(x.v[j].v) = 2

\* faulty variant of LevelsOf: the two items of a level change places
LevelsOfSwapped(x) == [j \in 1..Len(x.v) |-> <<x.v[j].v[2], x.v[j].v[1]>>]

LevelsOf(x) == [j \in 1..Len(x.v) |-> <<x.v[j].v[1], x.v[j].v[2]>>]

\* lines 98-129 of read_orderbook on the bytes it finds
ReadOf(header, payload) ==
    IF header.timestamp = 0 THEN NoSnapshot
    ELSE LET x == Loads(UpToNull(payload))
         IN  IF ~x.ok THEN NoSnapshot
             ELSE IF /\ x.val.k = "dict"
                     /\ HasKey(x.val, KeyBids)
                     /\ HasKey(x.val, KeyAsks)
                     /\ IsLevelList(DictGet(x.val, KeyBids))
                     /\ IsLevelList(DictGet(x.val, KeyAsks))
                  THEN Snapshot(header.timestamp, LevelsOf(DictGet(x.val, KeyBids)),
                                LevelsOf(DictGet(x.val, KeyAsks)))
                  ELSE ReadRaised

\* Inputs: levels (price, size) as floats; the size 10.0 takes one byte more
\* than 1.0
LevelA == <<JFloat(1, 2, <<0>>), JFloat(1, 1, <<0>>)>>

LevelB == <<JFloat(1, 1, <<0>>), JFloat(1, 10, <<0>>)>>

LevelC == <<JFloat(1, 1, <<0>>), JFloat(1, 1, <<0>>)>>

\* bid sides sorted best (highest price) first, ask sides best (lowest) first
BidSides == {<<>>, <<LevelA>>, <<LevelA, LevelB>>, <<LevelA, LevelC>>}

AskSides == {<<>>, <<LevelC>>, <<LevelB>>}


\* ------------------------------------------------------------------------
\* Strategy (src/processes/strategy.py)
\* ------------------------------------------------------------------------
\* Prices are integers (tenths of a currency unit); a price change is the exact
\* fraction num/den; sentiment values are integers in units of 1/SentScale, fine
\* enough to hold every average MaxFeed news messages can produce exactly.
RECURSIVE Pow10(_)
Pow10(n) == IF n = 0 THEN 1 ELSE 10 * Pow10(n - 1)

SentScale == Pow10(MaxFeed + 1)

\* Config.PRICE_CHANGE_THRESHOLD = 0.005
PRICE_CHANGE_THRESHOLD == [num |-> 5, den |-> 1000]

\* Config.SENTIMENT_THRESHOLD = 0.3
SENTIMENT_THRESHOLD == [num |-> 3, den |-> 10]

\* alpha = 0.3 of process_news
ALPHA == [num |-> 3, den |-> 10]

\* the first two of Config.SYMBOLS
Symbols == {"AAPL", "GOOGL"}

\* line 114: (current_price - last_price) / last_price, last_price > 0
PriceChange(current_price, last_price) ==
    [num |-> current_price - last_price, den |-> last_price]

\* a fraction (positive denominator) above / below a threshold fraction
FracGt(x, t) == x.num * t.den > t.num * x.den

FracLtNeg(x, t) == x.num * t.den < -(t.num) * x.den

\* a sentiment value above / below the sentiment threshold
SentGt(v, t) == v * t.den > t.num * SentScale

SentLtNeg(v, t) == v * t.den < -(t.num) * SentScale

\* faulty variant of Decide: the comparisons admit the thresholds themselves
DecideNotStrict(price_change, sentiment) ==
    IF price_change.num * PRICE_CHANGE_THRESHOLD.den
             >= PRICE_CHANGE_THRESHOLD.num * price_change.den
          /\ sentiment * SENTIMENT_THRESHOLD.den >= SENTIMENT_THRESHOLD.num * SentScale
    THEN "BUY"
    ELSE IF price_change.num * PRICE_CHANGE_THRESHOLD.den
                  <= -(PRICE_CHANGE_THRESHOLD.num) * price_change.den
               /\ sentiment * SENTIMENT_THRESHOLD.den <= -(SENTIMENT_THRESHOLD.num) * SentScale
    THEN "SELL"
    ELSE "NONE"

\* lines 123-146: the action of the signal, "NONE" when no branch is taken
Decide(price_change, sentiment) ==
    IF FracGt(price_change, PRICE_CHANGE_THRESHOLD) /\ SentGt(sentiment, SENTIMENT_THRESHOLD)
    THEN "BUY"
    ELSE IF FracLtNeg(price_change, PRICE_CHANGE_THRESHOLD)
               /\ SentLtNeg(sentiment, SENTIMENT_THRESHOLD)
    THEN "SELL"
    ELSE "NONE"

\* faulty variant of SentimentAfter: the weights of score and old value are swapped
SentimentAfterSwapped(old, score) ==
    ((ALPHA.den - ALPHA.num) * score * (SentScale \div 10) + ALPHA.num * old) \div ALPHA.den

\* line 218: alpha * score + (1 - alpha) * old; score in tenths
SentimentAfter(old, score) ==
    (ALPHA.num * score * (SentScale \div 10) + (ALPHA.den - ALPHA.num) * old) \div ALPHA.den

\* faulty variant of DictSet: the value is stored under every key
DictSetEvery(d, key, x) == [q \in DOMAIN d \cup {key} |-> x]

\* dict / defaultdict as functions on the keys present
DictSet(d, key, x) == [q \in DOMAIN d \cup {key} |-> IF q = key THEN x ELSE d[q]]

\* sentiment_scores.get(symbol, 0.0) and the defaultdict(float) default
GetOrZero(d, key) == IF key \in DOMAIN d THEN d[key] ELSE 0

NoSignal == [action |-> "NONE", symbol |-> "", price |-> 0,
             price_change |-> [num |-> 0, den |-> 1], sentiment |-> 0]

NoOrder == [order_id |-> -1, symbol |-> "", side |-> "NONE", price |-> 0, quantity |-> 0,
            signal_data |-> [price_change |-> [num |-> 0, den |-> 1], sentiment |-> 0]]

\* line 162: f"ORD_{int(time.time() * 1000000)}", the number behind ORD_
OrderId(microseconds) == microseconds

\* faulty variant of CreateOrder: every order is a BUY
CreateOrderAlwaysBuy(signal, quantity, microseconds) ==
    [order_id |-> OrderId(microseconds), symbol |-> signal.symbol, side |-> "BUY",
     price |-> signal.price, quantity |-> quantity,
     signal_data |-> [price_change |-> signal.price_change, sentiment |-> signal.sentiment]]

\* create_order, lines 161-172
CreateOrder(signal, quantity, microseconds) ==
    [order_id |-> OrderId(microseconds), symbol |-> signal.symbol, side |-> signal.action,
     price |-> signal.price, quantity |-> quantity,
     signal_data |-> [price_change |-> signal.price_change, sentiment |-> signal.sentiment]]

\* faulty variant of RunningAfterSend: the error of sendall reaches the run
\* loop, which leaves on a ConnectionError
RunningAfterSendUncaught(send) == send # "failed"

\* lines 197-202: except Exception around sendall; the loop goes on
RunningAfterSend(send) == TRUE

\* Inputs: last prices around 100.0 (1000 tenths): at, above and below the
\* 0.5% threshold in both directions; 0 stands for a non-positive price
PriceInputs == {0, 994, 995, 1000, 1005, 1006}

\* sentiment scores -1.0 and 1.0, in tenths
ScoreInputs == {-10, 10}

\* random.randint(10, 100): its two ends
QuantityInputs == {10, 100}

\* microseconds of time.time() between two create_order calls: the same
\* microsecond is read again, or a later one
TickInputs == {0, 1}

\* ------------------------------------------------------------------------
\* State
\* ------------------------------------------------------------------------
VARIABLES
    codecIn,        \* the message handed to serialize
    codecOut,       \* what deserialize made of its frame body
    codecDone,      \* the round trip has run
    frameBody,      \* the frame body handed to deserialize
    wire,           \* bytes sent on the stream and not yet received
    sent,           \* messages the sender has sent, in order
    rpc,            \* read_message: "idle", "prefix" (line 90) or "body" (line 100)
    length_bytes,   \* read_message local
    length,         \* read_message local
    data,           \* read_message local
    consumed,       \* bytes the running call has taken from the stream
    fragmented,     \* some recv of the running call got less than it asked for
    bytewise,       \* every recv of the running call got a single byte
    returned,       \* results of the completed read_message calls
    shmHeader,      \* the segment's first HEADER_SIZE bytes, as their three fields
    shmPayload,     \* the segment's bytes behind the header
    clock,          \* time.time() of the next write
    lastWriteCall,  \* the latest write_orderbook call and the segment it found
    lastWrite,      \* timestamp, bids and asks of the latest write that succeeded
    readResult,     \* what the latest read_orderbook call returned
    readFresh,      \* no write_orderbook call was made since that read
    lockHeld,       \* per store handle: its own Lock() is held
    wpc,            \* write_orderbook of the writer's handle: "idle", "header", "payload"
    wcall,          \* its locals: timestamp, bids, asks, json_bytes
    spc,            \* read_orderbook of the reader's handle: "idle", "header", "payload"
    rheader,        \* its local: the header it unpacked
    writes,         \* snapshots of the write_orderbook calls that passed the size check
    last_prices,        \* Strategy.last_prices
    sentiment_scores,   \* Strategy.sentiment_scores
    signal_count,       \* Strategy.signal_count
    order_count,        \* Strategy.order_count
    feedCount,          \* feed messages the run loop has processed
    running,            \* the run loop of the Strategy has not left its while
    now,                \* time.time() in microseconds, as create_order last read it
    order_ids,          \* the order_id of every order created, in order of creation
    lastEvent,          \* the feed message processed last and what it did
    peerClosed,         \* the peer has closed its end of the stream
    eofSeen,            \* a recv of read_message returned an empty chunk
    segExists,          \* a segment of the store's name exists in the system
    segGen,             \* which one: the number of segments created under the name
    handleGen,          \* the segment the caller's handle maps, 0 without a handle
    openCount,          \* constructor calls made
    lastOpen,           \* the latest constructor call and what it found
    bestResult,         \* what the latest get_best_bid_ask call returned, on which
                        \* segment and at which time
    total_orders,       \* OrderManager.total_orders
    total_executed,     \* OrderManager.total_executed
    total_volume,       \* OrderManager.total_volume, in hundredths
    executed_trades,    \* OrderManager.executed_trades
    trade_log,          \* the lines of OrderManager.log_file
    omOpen,             \* handle_client of the OrderManager has not left its while
    omCount,            \* ORDER messages that loop has read
    omEvent,            \* the ORDER message read last and what it did
    order_books,        \* OrderBook.order_books
    update_count,       \* OrderBook.update_count
    bookCount,          \* MARKET_DATA messages the OrderBook has processed
    bookEvent,          \* the MARKET_DATA message processed last and what it found
    role,               \* the process whose run() is followed
    shutdown_event,     \* its shutdown_event is set
    pc,                 \* where its accept, read and send loops stand
    attempt,            \* connect_to_*: the loop variable of the running call
    sleeps,             \* time.sleep(retry_delay) calls of the running call
    connected,          \* connect_to_* calls that returned a socket
    lastConnect,        \* the connect_to_* call that ended last
    conn,               \* the connection the read loop reads: what recv finds
    inbox,              \* frames sent on it and not yet read
    sentLog,            \* every frame sent on it, in order
    nread,              \* frames the read loop has taken from it
    handled,            \* the frames the read loop has processed, in order
    sawShutdown,        \* the read loop has read a SHUTDOWN message
    exitWhy,            \* what ended the read loop
    connFailed,         \* a recv of the read loop has failed
    retriedRead,        \* read_message was called again after that
    clientWaiting,      \* a client's connection waits in the listen queue
    bookLoop,           \* OrderBook.run: its message loop runs or has ended
    bookSocket,         \* OrderBook.run: the gateway socket
    endSnapshot,        \* what a read of the store returned when that loop ended
    gwPc,               \* Gateway.handle_client: where the handler of one client stands
    gwRounds,           \* passes of its while loop
    gwFrames,           \* the frames it has sent to the client, in order
    thPc,               \* OrderManager handler threads: where each stands in process_order
    thReg,              \* the value each has loaded for the += it is executing
    orders,             \* OrderManager.orders
    processed,          \* ORDER messages whose process_order call has returned
    news_seen,          \* NEWS_SENTIMENT messages the Strategy has processed, per symbol
    prices_seen,        \* MARKET_DATA messages with last_price > 0 it has processed, per symbol
    attName,            \* the segment the store's name refers to, 0 when there is none
    attMade,            \* segments created under that name so far
    aggPc,              \* the OrderBook's constructor call with create=True
    aggGen,             \* the segment the OrderBook's handle maps
    engGen,             \* the segment the Strategy's handle maps, 0 without a handle
    segData,            \* per segment: the write it holds, 0 when never written
    aggWrites,          \* write_orderbook calls of the OrderBook
    engSeen             \* what the Strategy's last read found and what it should have found

codecVars == <<codecIn, codecOut, codecDone, frameBody>>

streamVars ==
    <<wire, sent, rpc, length_bytes, length, data, consumed, fragmented, bytewise, returned>>

storeVars ==
    <<shmHeader, shmPayload, clock, lastWriteCall, lastWrite, readResult, readFresh>>

sharedVars == <<lockHeld, wpc, wcall, spc, rheader, writes>>

stratVars ==
    <<last_prices, sentiment_scores, signal_count, order_count, feedCount, running, now,
      order_ids, lastEvent>>

closeVars == <<peerClosed, eofSeen>>

segVars == <<segExists, segGen, handleGen, openCount, lastOpen, bestResult>>

omVars ==
    <<total_orders, total_executed, total_volume, executed_trades, trade_log, omOpen, omCount,
      omEvent>>

bookVars == <<order_books, update_count, bookCount, bookEvent>>

runVars ==
    <<role, shutdown_event, pc, attempt, sleeps, connected, lastConnect, conn, inbox, sentLog,
      nread, handled, sawShutdown, exitWhy, connFailed, retriedRead, clientWaiting>>

procVars == <<omVars, bookVars, runVars>>

endVars == <<bookLoop, bookSocket, endSnapshot>>

gwVars == <<gwPc, gwRounds, gwFrames>>

thVars == <<thPc, thReg, orders, processed>>

seenVars == <<news_seen, prices_seen>>

attVars == <<attName, attMade, aggPc, aggGen, engGen, segData, aggWrites, engSeen>>

extVars == <<endVars, gwVars, thVars, seenVars, attVars>>

vars ==
    <<codecVars, streamVars, storeVars, sharedVars, stratVars, closeVars, segVars, procVars,
      extVars>>

CodecIdle ==
    /\ codecIn = NoMessage
    /\ codecOut = DecodeFail("")
    /\ codecDone = FALSE
    /\ frameBody = <<>>

StreamIdle ==
    /\ wire = <<>>
    /\ sent = <<>>
    /\ rpc = "idle"
    /\ length_bytes = <<>>
    /\ length = 0
    /\ data = <<>>
    /\ consumed = 0
    /\ fragmented = FALSE
    /\ bytewise = TRUE
    /\ returned = <<>>

\* the peer's end of the stream is open
StreamOpen ==
    /\ peerClosed = FALSE
    /\ eofSeen = FALSE

NoOpen == [called |-> FALSE, create |-> FALSE, ok |-> FALSE, error |-> "",
           existed |-> FALSE, published |-> FALSE, genBefore |-> 0]

\* get_best_bid_ask has not been called / returned None
NoBest == [kind |-> "none", bid |-> JInt(0), ask |-> JInt(0)]

\* one segment, made by OrderBookSharedMemory(create=True), and its handle
SegmentCreated ==
    /\ segExists = TRUE
    /\ segGen = 1
    /\ handleGen = 1
    /\ openCount = 0
    /\ lastOpen = NoOpen
    /\ bestResult = [res |-> NoBest, gen |-> 0, at |-> 0]

NoWriteCall ==
    [called |-> FALSE, ok |-> FALSE, timestamp |-> 0, bids |-> <<>>, asks |-> <<>>,
     paylen |-> 0, headerBefore |-> ZeroHeader, payloadBefore |-> ZeroPayload]

\* OrderBookSharedMemory(create=True): a new zero-filled segment
StoreCreated ==
    /\ shmHeader = ZeroHeader
    /\ shmPayload = ZeroPayload
    /\ clock = 1
    /\ lastWriteCall = NoWriteCall
    /\ lastWrite = NoSnapshot
    /\ readResult = NoSnapshot
    /\ readFresh = FALSE

\* the two handles of the segment: each __init__ makes a Lock() of its own
Handles == {"writer", "reader"}

NoCall == [timestamp |-> 0, bids |-> <<>>, asks |-> <<>>, json_bytes |-> <<>>]

HandlesOpened ==
    /\ lockHeld = [h \in Handles |-> FALSE]
    /\ wpc = "idle"
    /\ wcall = NoCall
    /\ spc = "idle"
    /\ rheader = ZeroHeader
    /\ writes = {}

NoEvent ==
    [kind |-> "none", symbol |-> "", has_price |-> FALSE, price |-> 0, score |-> 0,
     had_prev |-> FALSE, prev |-> 0, had_sentiment |-> FALSE, sentiment_before |-> 0,
     sentiments_before |-> <<>>, prices_before |-> <<>>,
     signal |-> NoSignal, send |-> "none", order |-> NoOrder,
     signals_before |-> 0, orders_before |-> 0]

\* Strategy.__init__, lines 47-52
StrategyCreated ==
    /\ last_prices = <<>>
    /\ sentiment_scores = <<>>
    /\ signal_count = 0
    /\ order_count = 0
    /\ feedCount = 0
    /\ running = TRUE
    /\ now = 0
    /\ order_ids = <<>>
    /\ lastEvent = NoEvent

\* no ORDER message was read yet
NoOrderMessage ==
    [shape |-> "none", order_id |-> 0, symbol |-> "", side |-> "", quantity |-> 0, price |-> 0]

NoExecution ==
    [order_id |-> 0, symbol |-> "", side |-> "", quantity |-> 0, order_price |-> 0,
     execution_price |-> 0, status |-> "NONE"]

NoOrderEvent ==
    [kind |-> "none", order |-> NoOrderMessage, slippage |-> 0, log_fails |-> FALSE,
     execution |-> NoExecution,
     before |-> [orders |-> 0, executed |-> 0, volume |-> 0],
     trades_before |-> 0, log_before |-> <<>>, failures_before |-> 0]

\* OrderManager.__init__, lines 37-46; the trade log starts empty
OrderManagerCreated ==
    /\ total_orders = 0
    /\ total_executed = 0
    /\ total_volume = 0
    /\ executed_trades = <<>>
    /\ trade_log = <<>>
    /\ omOpen = TRUE
    /\ omCount = 0
    /\ omEvent = NoOrderEvent

NoBookEvent ==
    [kind |-> "none", symbol |-> "", bids |-> <<>>, asks |-> <<>>, timestamp |-> 0,
     raised |-> FALSE, interval_elapsed |-> FALSE, written_at |-> 0,
     header_before |-> ZeroHeader, payload_before |-> ZeroPayload, updates_before |-> 0]

\* OrderBook.__init__, lines 38-48
OrderBookCreated ==
    /\ order_books = <<>>
    /\ update_count = 0
    /\ bookCount = 0
    /\ bookEvent = NoBookEvent

\* the loops of a process: "accept" (Gateway.run, OrderManager.run), "read"
\* (OrderBook.run, Strategy.run, OrderManager.handle_client) and "send"
\* (Gateway.handle_client)
Loops == {"accept", "read", "send"}

NoConnect == [called |-> FALSE, ok |-> FALSE, attempts |-> 0, sleeps |-> 0]

\* no run() is followed
RunIdle ==
    /\ role = "none"
    /\ shutdown_event = FALSE
    /\ pc = [l \in Loops |-> "none"]
    /\ attempt = 0
    /\ sleeps = 0
    /\ connected = 0
    /\ lastConnect = NoConnect
    /\ conn = "open"
    /\ inbox = <<>>
    /\ sentLog = <<>>
    /\ nread = 0
    /\ handled = <<>>
    /\ sawShutdown = FALSE
    /\ exitWhy = ""
    /\ connFailed = FALSE
    /\ retriedRead = FALSE
    /\ clientWaiting = FALSE

\* OrderBook.run has entered its message loop: the socket to the gateway is open
BookLoopRunning ==
    /\ bookLoop = "running"
    /\ bookSocket = "open"
    /\ endSnapshot = NoSnapshot

\* Gateway.handle_client has not been entered
GatewayIdle ==
    /\ gwPc = "none"
    /\ gwRounds = 0
    /\ gwFrames = <<>>

\* the OrderManager's handler threads
Threads == {1, 2}

\* OrderManager.__init__, line 48, and handler threads that wait in read_message
ThreadsIdle ==
    /\ thPc = [t \in Threads |-> "none"]
    /\ thReg = [t \in Threads |-> 0]
    /\ orders = <<>>
    /\ processed = 0

\* nothing processed by the Strategy yet
NothingSeen ==
    /\ news_seen = [s \in Symbols |-> 0]
    /\ prices_seen = [s \in Symbols |-> 0]

NoSeen == [reads |-> 0, fresh |-> FALSE, found |-> 0, expected |-> 0]

\* no constructor of the store has been called
AttachIdle ==
    /\ attName = 0
    /\ attMade = 0
    /\ aggPc = "none"
    /\ aggGen = 0
    /\ engGen = 0
    /\ segData = <<>>
    /\ aggWrites = 0
    /\ engSeen = NoSeen

ExtensionsIdle ==
    /\ BookLoopRunning
    /\ GatewayIdle
    /\ ThreadsIdle
    /\ NothingSeen
    /\ AttachIdle

ProcessesCreated ==
    /\ OrderManagerCreated
    /\ OrderBookCreated
    /\ RunIdle
    /\ ExtensionsIdle

\* ------------------------------------------------------------------------
\* Round trip of the codec: serialize, strip the prefix, deserialize
\* ------------------------------------------------------------------------
CodecInit ==
    /\ codecIn \in AllMessages
    /\ codecOut = DecodeFail("")
    /\ codecDone = FALSE
    /\ frameBody = <<>>
    /\ StreamIdle
    /\ StoreCreated
    /\ HandlesOpened
    /\ StrategyCreated
    /\ StreamOpen
    /\ SegmentCreated
    /\ ProcessesCreated

RoundTrip ==
    /\ ~codecDone
    /\ frameBody' = Drop(Serialize(codecIn), 4)
    /\ codecOut' = Deserialize(Drop(Serialize(codecIn), 4))
    /\ codecDone' = TRUE
    /\ UNCHANGED <<codecIn, procVars, extVars, segVars, closeVars, streamVars, storeVars, sharedVars, stratVars>>

SpecCodec == CodecInit /\ [][RoundTrip]_vars

\* ------------------------------------------------------------------------
\* deserialize on frame bodies of any content
\* ------------------------------------------------------------------------
\* values found under 'type': member values, their neighbours, and values of
\* the other JSON types
TagValues ==
    { JInt(0), JInt(1), JInt(8), JInt(9), JInt(-1), JFloat(1, 1, <<0>>), JFloat(1, 8, <<5>>),
      JStr(<<49>>), JConst("true"), JConst("false"), JConst("null"), JConst("NaN"),
      JList(<<JInt(1)>>), JDict(<<>>) }

\* values found under 'data'
DataValues ==
    { JDict(<<>>), JDict(<< <<<<115>>, JStr(<<65>>)>> >>), JList(<<JInt(1)>>), JInt(7),
      JConst("null"), JConst("NaN") }

\* the bodies of whole frames, every proper prefix of them, bodies with any tag
\* and any payload, bodies without 'type' or 'data', values that are not
\* objects, trailing bytes, surrounding white space, and a byte that is not UTF-8
DecodeBodies ==
    {BodyOf(m) : m \in StreamMessages}
        \cup UNION {{Take(BodyOf(m), n) : n \in 0..(Len(BodyOf(m)) - 1)} : m \in StreamMessages}
        \cup {Dumps(JDict(<< <<KeyType, t>>, <<KeyData, d>> >>)) : t \in TagValues, d \in DataValues}
        \cup {Dumps(JDict(<< <<KeyType, t>> >>)) : t \in TagValues}
        \cup {Dumps(JDict(<< <<KeyData, d>> >>)) : d \in DataValues}
        \cup {Dumps(d) : d \in DataValues}
        \cup {BodyOf(m) \o <<120>> : m \in StreamMessages}
        \cup {<<32>> \o BodyOf(m) \o <<10>> : m \in StreamMessages}
        \cup {<<255>>}

DecodeInit ==
    /\ codecIn = NoMessage
    /\ codecOut = DecodeFail("")
    /\ codecDone = FALSE
    /\ frameBody \in DecodeBodies
    /\ StreamIdle
    /\ StoreCreated
    /\ HandlesOpened
    /\ StrategyCreated
    /\ StreamOpen
    /\ SegmentCreated
    /\ ProcessesCreated

\* Message.deserialize(data)
Decode ==
    /\ ~codecDone
    /\ codecOut' = Deserialize(frameBody)
    /\ codecDone' = TRUE
    /\ UNCHANGED <<codecIn, procVars, extVars, segVars, frameBody, closeVars, streamVars, storeVars, sharedVars, stratVars>>

SpecDecode == DecodeInit /\ [][Decode]_vars

\* ------------------------------------------------------------------------
\* One stream: a sender (sendall of serialized messages) and a reader that
\* calls read_message in a loop
\* ------------------------------------------------------------------------
\* sock.sendall(msg.serialize())
Send(m) ==
    /\ Len(sent) < MaxMsgs
    /\ wire' = wire \o Serialize(m)
    /\ sent' = Append(sent, m)
    /\ UNCHANGED <<codecVars, procVars, extVars, segVars, closeVars, storeVars, sharedVars, stratVars, rpc, length_bytes, length, data, consumed,
                   fragmented, bytewise, returned>>

\* the reader's loop calls read_message (lines 88-89)
ReadMessageCall ==
    /\ rpc = "idle"
    /\ Len(returned) < MaxMsgs
    /\ rpc' = "prefix"
    /\ length_bytes' = <<>>
    /\ length' = 0
    /\ data' = <<>>
    /\ consumed' = 0
    /\ fragmented' = FALSE
    /\ bytewise' = TRUE
    /\ UNCHANGED <<codecVars, procVars, extVars, segVars, closeVars, storeVars, sharedVars, stratVars, wire, sent, returned>>

\* lines 106-107: deserialize the body and return (message, length + 4)
ReturnOf(body, len, used, frag, bytew) ==
    LET r == Deserialize(body)
    IN  [ok |-> r.ok, err |-> r.err, msg |-> r.msg, size |-> len + 4, consumed |-> used,
         fragmented |-> frag, bytewise |-> bytew]

\* line 91: the size the prefix loop asks recv for
PrefixRecvSize(lb) == 4 - Len(lb)

\* faulty variant of BodyRecvSize: every body recv asks for a full buffer
BodyRecvSizeGreedy(len, d) == RECV_MAX

\* line 101: the size the body loop asks recv for
BodyRecvSize(len, d) == Min(len - Len(d), RECV_MAX)

\* line 90: the prefix loop ends once 4 bytes are in
PrefixDone(lb) == ~(Len(lb) < 4)

\* faulty variant of BodyDone: the body loop trusts a single recv
BodyDoneAfterOneRecv(len, d) == TRUE

\* line 100: the body loop ends once length bytes are in
BodyDone(len, d) == ~(Len(d) < len)

\* lines 90-96: one recv of the prefix loop; the transport hands over any
\* non-empty part of what was asked for
RecvPrefix ==
    /\ rpc = "prefix"
    /\ \E n \in 1..Min(PrefixRecvSize(length_bytes), Len(wire)) :
         LET lb   == length_bytes \o Take(wire, n)
             frag == fragmented \/ n < PrefixRecvSize(length_bytes)
             byt  == bytewise /\ n = 1
         IN  /\ wire' = Drop(wire, n)
             /\ consumed' = consumed + n
             /\ fragmented' = frag
             /\ bytewise' = byt
             /\ length_bytes' = lb
             /\ IF ~PrefixDone(lb)
                THEN UNCHANGED <<length, rpc, returned>>
                ELSE /\ length' = Unpack32(lb)
                     /\ IF BodyDone(Unpack32(lb), <<>>)
                        THEN /\ rpc' = "idle"
                             /\ returned' =
                                  Append(returned,
                                         ReturnOf(<<>>, Unpack32(lb), consumed + n, frag, byt))
                        ELSE /\ rpc' = "body"
                             /\ UNCHANGED returned
    /\ UNCHANGED <<codecVars, procVars, extVars, segVars, closeVars, storeVars, sharedVars, stratVars, sent, data>>

\* lines 100-107: one recv of the body loop, and the return once it is full
RecvBody ==
    /\ rpc = "body"
    /\ \E n \in 1..Min(BodyRecvSize(length, data), Len(wire)) :
         LET d    == data \o Take(wire, n)
             frag == fragmented \/ n < BodyRecvSize(length, data)
             byt  == bytewise /\ n = 1
         IN  /\ wire' = Drop(wire, n)
             /\ consumed' = consumed + n
             /\ fragmented' = frag
             /\ bytewise' = byt
             /\ data' = d
             /\ IF BodyDone(length, d)
                THEN /\ rpc' = "idle"
                     /\ returned' =
                          Append(returned, ReturnOf(d, length, consumed + n, frag, byt))
                ELSE UNCHANGED <<rpc, returned>>
    /\ UNCHANGED <<codecVars, procVars, extVars, segVars, closeVars, storeVars, sharedVars, stratVars, sent, length_bytes, length>>

Init ==
    /\ CodecIdle
    /\ StreamIdle
    /\ StoreCreated
    /\ HandlesOpened
    /\ StrategyCreated
    /\ StreamOpen
    /\ SegmentCreated
    /\ ProcessesCreated

Next ==
    \/ \E m \in StreamMessages : Send(m)
    \/ ReadMessageCall
    \/ RecvPrefix
    \/ RecvBody

Spec == Init /\ [][Next]_vars


\* ------------------------------------------------------------------------
\* The stream with a peer that closes its end, possibly in the middle of a
\* frame
\* ------------------------------------------------------------------------
\* the frame a closing peer was sending
ClosingFrame == Serialize(Message(2, JDict(<< <<<<115>>, JStr(<<65>>)>> >>)))

\* how much of that frame got out: nothing, part of the prefix, the prefix,
\* part of the body
CutPoints == {0, 1, 3, 4, 5, Len(ClosingFrame) - 1}

\* sendall of a whole frame by a peer that is still open
SendOpen(m) ==
    /\ ~peerClosed
    /\ Len(sent) < MaxClosedMsgs
    /\ wire' = wire \o Serialize(m)
    /\ sent' = Append(sent, m)
    /\ UNCHANGED <<codecVars, procVars, extVars, segVars, closeVars, storeVars, sharedVars, stratVars, rpc, length_bytes,
                   length, data, consumed, fragmented, bytewise, returned>>

\* the peer closes its socket after k bytes of its next frame
PeerClose(k) ==
    /\ ~peerClosed
    /\ peerClosed' = TRUE
    /\ wire' = wire \o Take(ClosingFrame, k)
    /\ UNCHANGED <<codecVars, procVars, extVars, segVars, storeVars, sharedVars, stratVars, eofSeen, sent, rpc,
                   length_bytes, length, data, consumed, fragmented, bytewise, returned>>

\* faulty variant of EmptyChunk: an empty chunk is taken for a short read
EmptyChunkIgnored(chunk) == FALSE

\* lines 92-93 and 102-103: if not chunk
EmptyChunk(chunk) == Len(chunk) = 0

\* lines 91-93 and 101-103: recv on a closed and drained stream returns b''
\* and read_message raises ConnectionError
RecvClosed ==
    /\ rpc \in {"prefix", "body"}
    /\ peerClosed
    /\ wire = <<>>
    /\ eofSeen' = TRUE
    /\ rpc' = IF EmptyChunk(<<>>) THEN "broken" ELSE rpc
    /\ UNCHANGED <<codecVars, procVars, extVars, segVars, storeVars, sharedVars, stratVars, peerClosed, wire, sent,
                   length_bytes, length, data, consumed, fragmented, bytewise, returned>>

NextClose ==
    \/ \E m \in StreamMessages : SendOpen(m)
    \/ \E k \in CutPoints : PeerClose(k)
    \/ ReadMessageCall
    \/ RecvPrefix
    \/ RecvBody
    \/ RecvClosed

SpecClose == Init /\ [][NextClose]_vars

\* ------------------------------------------------------------------------
\* The store used through one handle by one caller at a time
\* ------------------------------------------------------------------------
\* write_orderbook(bids, asks), lines 67-88
WriteOrderbook(bids, asks) ==
    LET json_bytes == EncodeBook(bids, asks)
        call == [called |-> TRUE, ok |-> ~TooLarge(json_bytes), timestamp |-> clock,
                 bids |-> bids, asks |-> asks, paylen |-> Len(json_bytes),
                 headerBefore |-> shmHeader, payloadBefore |-> shmPayload]
    IN  /\ clock <= MaxWrites
        /\ clock' = clock + 1
        /\ lastWriteCall' = call
        /\ readFresh' = FALSE
        /\ IF TooLarge(json_bytes)
           THEN UNCHANGED <<shmHeader, shmPayload, lastWrite>>
           ELSE /\ shmHeader' = Header(clock, Len(bids), Len(asks))
                /\ shmPayload' = PayloadAfterWrite(shmPayload, json_bytes)
                /\ lastWrite' = Snapshot(clock, bids, asks)
        /\ UNCHANGED <<codecVars, procVars, extVars, segVars, closeVars, streamVars, stratVars, sharedVars, readResult>>

\* read_orderbook(), lines 97-129
ReadOrderbook ==
    /\ readResult' = ReadOf(shmHeader, shmPayload)
    /\ readFresh' = TRUE
    /\ UNCHANGED <<codecVars, procVars, extVars, segVars, closeVars, streamVars, stratVars, sharedVars, shmHeader, shmPayload, clock,
                   lastWriteCall, lastWrite>>

StoreNext ==
    \/ \E bids \in BidSides, asks \in AskSides : WriteOrderbook(bids, asks)
    \/ ReadOrderbook

SpecStore == Init /\ [][StoreNext]_vars


\* ------------------------------------------------------------------------
\* The segment's life: constructor calls with create=True and create=False,
\* writes and reads through the handle, close and unlink
\* ------------------------------------------------------------------------
\* the constructor's result on lastOpen
OpenOf(create, ok, error) ==
    [called |-> TRUE, create |-> create, ok |-> ok, error |-> error,
     existed |-> segExists, published |-> segExists /\ shmHeader.timestamp # 0,
     genBefore |-> segGen]

\* faulty variant of BestOf: a book with one empty side still gives a pair
BestOfEitherSide(r) ==
    IF r.kind = "raise" THEN [kind |-> "raise", bid |-> JInt(0), ask |-> JInt(0)]
    ELSE IF r.kind = "none" \/ (r.bids = <<>> /\ r.asks = <<>>) THEN NoBest
    ELSE [kind |-> "pair",
          bid |-> IF r.bids = <<>> THEN JInt(0) ELSE r.bids[1][1],
          ask |-> IF r.asks = <<>> THEN JInt(0) ELSE r.asks[1][1]]

\* get_best_bid_ask, lines 136-143, on what read_orderbook returned
BestOf(r) ==
    IF r.kind = "raise" THEN [kind |-> "raise", bid |-> JInt(0), ask |-> JInt(0)]
    ELSE IF r.kind = "none" \/ r.bids = <<>> \/ r.asks = <<>> THEN NoBest
    ELSE [kind |-> "pair", bid |-> r.bids[1][1], ask |-> r.asks[1][1]]

\* faulty variant of NewSegment: the bytes of the segment unlinked are kept
NewSegmentKeepsBytes(header, payload) == [header |-> header, payload |-> payload]

\* lines 45-49: SharedMemory(name, create=True, size): a new, zero-filled
\* segment, whatever the one unlinked before held
NewSegment(header, payload) == [header |-> ZeroHeader, payload |-> ZeroPayload]

\* faulty variant of AttachCreates: a missing segment is created on attach
AttachCreatesAlways(exists) == TRUE

\* lines 53-56: SharedMemory(name=name) opens without creating
AttachCreates(exists) == FALSE

\* the handle maps the segment that carries the name
HandleAttached == segExists /\ handleGen = segGen

\* OrderBookSharedMemory(name, create=True), lines 34-51.  fail: where the
\* operating system refuses: "unlink" (opening or unlinking the old segment
\* raises something else than FileNotFoundError), "create", or "none"
OpenCreate(fail) ==
    /\ openCount < MaxOpens
    /\ openCount' = openCount + 1
    /\ fail = "unlink" => segExists
    /\ IF fail = "unlink"
       THEN /\ lastOpen' = OpenOf(TRUE, FALSE, "RuntimeError")
            /\ handleGen' = 0
            /\ UNCHANGED <<segExists, segGen, shmHeader, shmPayload, lastWriteCall, lastWrite,
                           readFresh>>
       ELSE IF fail = "create"
       THEN /\ lastOpen' = OpenOf(TRUE, FALSE, "RuntimeError")
            /\ handleGen' = 0
            /\ segExists' = FALSE
            /\ UNCHANGED <<segGen, shmHeader, shmPayload, lastWriteCall, lastWrite, readFresh>>
       ELSE /\ lastOpen' = OpenOf(TRUE, TRUE, "")
            /\ segExists' = TRUE
            /\ segGen' = segGen + 1
            /\ handleGen' = segGen + 1
            /\ shmHeader' = NewSegment(shmHeader, shmPayload).header
            /\ shmPayload' = NewSegment(shmHeader, shmPayload).payload
            /\ lastWriteCall' = NoWriteCall
            /\ lastWrite' = NoSnapshot
            /\ readFresh' = FALSE
    /\ UNCHANGED <<codecVars, procVars, extVars, closeVars, streamVars, stratVars, sharedVars, clock, readResult,
                   bestResult>>

\* OrderBookSharedMemory(name, create=False), lines 52-56
OpenAttach ==
    /\ openCount < MaxOpens
    /\ openCount' = openCount + 1
    /\ IF segExists
       THEN /\ lastOpen' = OpenOf(FALSE, TRUE, "")
            /\ handleGen' = segGen
            /\ UNCHANGED <<segExists, segGen, shmHeader, shmPayload>>
       ELSE /\ lastOpen' = OpenOf(FALSE, FALSE, "RuntimeError: not found")
            /\ handleGen' = 0
            /\ segExists' = AttachCreates(segExists)
            /\ segGen' = IF AttachCreates(segExists) THEN segGen + 1 ELSE segGen
            /\ UNCHANGED <<shmHeader, shmPayload>>
    /\ UNCHANGED <<codecVars, procVars, extVars, closeVars, streamVars, stratVars, sharedVars, clock, lastWriteCall,
                   lastWrite, readResult, readFresh, bestResult>>

\* close() and unlink() of the handle, lines 145-153
CloseUnlink ==
    /\ HandleAttached
    /\ segExists' = FALSE
    /\ handleGen' = 0
    /\ UNCHANGED <<codecVars, procVars, extVars, closeVars, streamVars, stratVars, sharedVars, storeVars, segGen,
                   openCount, lastOpen, bestResult>>

\* write_orderbook through the handle
SegWrite(bids, asks) ==
    /\ HandleAttached
    /\ clock <= MaxSegWrites
    /\ WriteOrderbook(bids, asks)

\* read_orderbook through the handle
SegRead == HandleAttached /\ ReadOrderbook

\* get_best_bid_ask through the handle, lines 136-143
GetBestBidAsk ==
    /\ HandleAttached
    /\ readResult' = ReadOf(shmHeader, shmPayload)
    /\ readFresh' = TRUE
    /\ bestResult' = [res |-> BestOf(ReadOf(shmHeader, shmPayload)), gen |-> segGen,
                       at |-> clock]
    /\ UNCHANGED <<codecVars, procVars, extVars, closeVars, streamVars, stratVars, sharedVars, shmHeader, shmPayload,
                   clock, lastWriteCall, lastWrite, segExists, segGen, handleGen, openCount,
                   lastOpen>>

\* the books written in the life of the segments: empty, one-sided, two levels
SegBidSides == {<<>>, <<LevelA>>, <<LevelA, LevelC>>}

SegAskSides == {<<>>, <<LevelC>>}

SegmentNext ==
    \/ \E fail \in {"none", "unlink", "create"} : OpenCreate(fail)
    \/ OpenAttach
    \/ CloseUnlink
    \/ \E bids \in SegBidSides, asks \in SegAskSides : SegWrite(bids, asks)
    \/ SegRead
    \/ GetBestBidAsk

SpecSegment == Init /\ [][SegmentNext]_vars

\* ------------------------------------------------------------------------
\* The store used by two processes: the creator writes through its handle,
\* a reader attached by name reads through its own.  `with self.lock` takes
\* the Lock() object of the handle it is called on.
\* ------------------------------------------------------------------------
\* write_orderbook lines 67-82: take the handle's lock, stamp, encode, check
WriteBegin(bids, asks) ==
    LET json_bytes == EncodeBook(bids, asks)
    IN  /\ wpc = "idle"
        /\ ~lockHeld["writer"]
        /\ clock <= MaxSharedWrites
        /\ clock' = clock + 1
        /\ IF TooLarge(json_bytes)
           THEN UNCHANGED <<lockHeld, wpc, wcall, writes>>
           ELSE /\ lockHeld' = [lockHeld EXCEPT !["writer"] = TRUE]
                /\ wpc' = "header"
                /\ wcall' = [timestamp |-> clock, bids |-> bids, asks |-> asks,
                             json_bytes |-> json_bytes]
                /\ writes' = writes \cup {Snapshot(clock, bids, asks)}
        /\ UNCHANGED <<codecVars, procVars, extVars, segVars, closeVars, streamVars, stratVars, shmHeader, shmPayload, lastWriteCall,
                       lastWrite, readResult, readFresh, spc, rheader>>

\* line 87: buf[:HEADER_SIZE] = header
WriteHeader ==
    /\ wpc = "header"
    /\ shmHeader' = Header(wcall.timestamp, Len(wcall.bids), Len(wcall.asks))
    /\ wpc' = "payload"
    /\ UNCHANGED <<codecVars, procVars, extVars, segVars, closeVars, streamVars, stratVars, shmPayload, clock, lastWriteCall, lastWrite,
                   readResult, readFresh, lockHeld, wcall, spc, rheader, writes>>

\* line 88 and the end of the with block
WritePayload ==
    /\ wpc = "payload"
    /\ shmPayload' = PayloadAfterWrite(shmPayload, wcall.json_bytes)
    /\ lastWrite' = Snapshot(wcall.timestamp, wcall.bids, wcall.asks)
    /\ readFresh' = FALSE
    /\ lockHeld' = [lockHeld EXCEPT !["writer"] = FALSE]
    /\ wpc' = "idle"
    /\ UNCHANGED <<codecVars, procVars, extVars, segVars, closeVars, streamVars, stratVars, shmHeader, clock, lastWriteCall, readResult,
                   wcall, spc, rheader, writes>>

\* read_orderbook line 96: take the handle's lock
ReadBegin ==
    /\ spc = "idle"
    /\ ~lockHeld["reader"]
    /\ lockHeld' = [lockHeld EXCEPT !["reader"] = TRUE]
    /\ spc' = "header"
    /\ UNCHANGED <<codecVars, procVars, extVars, segVars, closeVars, streamVars, stratVars, storeVars, wpc, wcall, rheader, writes>>

\* lines 98-103: copy and unpack the header; a zero timestamp returns None
ReadHeader ==
    /\ spc = "header"
    /\ rheader' = shmHeader
    /\ IF shmHeader.timestamp = 0
       THEN /\ readResult' = NoSnapshot
            /\ readFresh' = TRUE
            /\ lockHeld' = [lockHeld EXCEPT !["reader"] = FALSE]
            /\ spc' = "idle"
       ELSE /\ spc' = "payload"
            /\ UNCHANGED <<readResult, readFresh, lockHeld>>
    /\ UNCHANGED <<codecVars, procVars, extVars, segVars, closeVars, streamVars, stratVars, shmHeader, shmPayload, clock, lastWriteCall,
                   lastWrite, wpc, wcall, writes>>

\* lines 107-129: copy the payload region, parse it, return
ReadPayload ==
    /\ spc = "payload"
    /\ readResult' = ReadOf(rheader, shmPayload)
    /\ readFresh' = TRUE
    /\ lockHeld' = [lockHeld EXCEPT !["reader"] = FALSE]
    /\ spc' = "idle"
    /\ UNCHANGED <<codecVars, procVars, extVars, segVars, closeVars, streamVars, stratVars, shmHeader, shmPayload, clock, lastWriteCall,
                   lastWrite, wpc, wcall, rheader, writes>>

SharedNext ==
    \/ \E bids \in BidSides, asks \in AskSides : WriteBegin(bids, asks)
    \/ WriteHeader
    \/ WritePayload
    \/ ReadBegin
    \/ ReadHeader
    \/ ReadPayload

SpecStoreShared == Init /\ [][SharedNext]_vars


\* ------------------------------------------------------------------------
\* The Strategy's run loop on its feed: one action per message processed
\* ------------------------------------------------------------------------
\* faulty variant of GenerateSignal: a symbol without a previous price is given one
GenerateSignalNoColdStart(symbol, current_price) ==
    LET last_price   == IF symbol \in DOMAIN last_prices THEN last_prices[symbol] ELSE 1
        price_change == PriceChange(current_price, last_price)
        sentiment    == GetOrZero(sentiment_scores, symbol)
        action       == Decide(price_change, sentiment)
    IN  IF action = "NONE" THEN NoSignal
        ELSE [action |-> action, symbol |-> symbol, price |-> current_price,
              price_change |-> price_change, sentiment |-> sentiment]

\* generate_signal, lines 108-148
GenerateSignal(symbol, current_price) ==
    IF symbol \notin DOMAIN last_prices THEN NoSignal
    ELSE LET price_change == PriceChange(current_price, last_prices[symbol])
             sentiment    == GetOrZero(sentiment_scores, symbol)
             action       == Decide(price_change, sentiment)
         IN  IF action = "NONE" THEN NoSignal
             ELSE [action |-> action, symbol |-> symbol, price |-> current_price,
                   price_change |-> price_change, sentiment |-> sentiment]

\* faulty variant of LastPricesAfter: the price is recorded only when no send failed
LastPricesAfterSendOnly(symbol, current_price, send) ==
    IF send = "failed" THEN last_prices ELSE DictSet(last_prices, symbol, current_price)

\* line 205: self.last_prices[symbol] = current_price
LastPricesAfter(symbol, current_price, send) == DictSet(last_prices, symbol, current_price)

EventOf(kind, symbol, has_price, price, score, signal, send, order) ==
    [kind |-> kind, symbol |-> symbol, has_price |-> has_price, price |-> price,
     score |-> score,
     had_prev |-> symbol \in DOMAIN last_prices,
     prev |-> GetOrZero(last_prices, symbol),
     had_sentiment |-> symbol \in DOMAIN sentiment_scores,
     sentiment_before |-> GetOrZero(sentiment_scores, symbol),
     sentiments_before |-> sentiment_scores, prices_before |-> last_prices,
     signal |-> signal, send |-> send, order |-> order,
     signals_before |-> signal_count, orders_before |-> order_count]

\* process_market_data, lines 183-205.  has_price: the message carries
\* 'last_price' (data.get('last_price', 0) otherwise); send_fails: sendall
\* raises; quantity: what random.randint returns; tick: the microseconds gone
\* since create_order last read the clock
ProcessMarketData(symbol, has_price, price, send_fails, quantity, tick) ==
    LET current_price == IF has_price THEN price ELSE 0
    IN  /\ running
        /\ feedCount < MaxFeed
        /\ feedCount' = feedCount + 1
        /\ prices_seen' = IF current_price > 0
                          THEN [prices_seen EXCEPT ![symbol] = @ + 1]
                          ELSE prices_seen
        /\ IF current_price > 0
           THEN LET signal == GenerateSignal(symbol, current_price)
                    fired  == signal.action # "NONE"
                    order  == IF fired THEN CreateOrder(signal, quantity, now + tick)
                              ELSE NoOrder
                    send   == IF ~fired THEN "none"
                              ELSE IF send_fails THEN "failed" ELSE "sent"
                IN  /\ (~fired => (~send_fails /\ quantity = 10 /\ tick = 0))
                    /\ signal_count' = IF fired THEN signal_count + 1 ELSE signal_count
                    /\ order_count' = IF send = "sent" THEN order_count + 1 ELSE order_count
                    /\ now' = IF fired THEN now + tick ELSE now
                    /\ order_ids' = IF fired THEN Append(order_ids, order.order_id)
                                    ELSE order_ids
                    /\ last_prices' = LastPricesAfter(symbol, current_price, send)
                    /\ running' = RunningAfterSend(send)
                    /\ lastEvent' = EventOf("market", symbol, has_price, current_price, 0,
                                            signal, send, order)
           ELSE /\ ~send_fails
                /\ quantity = 10
                /\ tick = 0
                /\ lastEvent' = EventOf("market", symbol, has_price, current_price, 0,
                                        NoSignal, "none", NoOrder)
                /\ UNCHANGED <<signal_count, order_count, last_prices, running, now,
                               order_ids>>
        /\ UNCHANGED <<codecVars, procVars, endVars, gwVars, thVars, attVars, news_seen, segVars, closeVars, streamVars, storeVars, sharedVars,
                       sentiment_scores>>

\* process_news, lines 213-218
ProcessNews(symbol, score) ==
    /\ running
    /\ feedCount < MaxFeed
    /\ feedCount' = feedCount + 1
    /\ news_seen' = [news_seen EXCEPT ![symbol] = @ + 1]
    /\ sentiment_scores' =
          DictSet(sentiment_scores, symbol,
                  SentimentAfter(GetOrZero(sentiment_scores, symbol), score))
    /\ lastEvent' = EventOf("news", symbol, FALSE, 0, score, NoSignal, "none", NoOrder)
    /\ UNCHANGED <<codecVars, procVars, endVars, gwVars, thVars, attVars, prices_seen, segVars, closeVars, streamVars, storeVars, sharedVars,
                   last_prices, signal_count, order_count, running, now, order_ids>>

\* run, lines 254-256 and 264-266: a SHUTDOWN message, or a ConnectionError of
\* read_message on the feed, ends the loop
LeaveLoop(why) ==
    /\ running
    /\ feedCount < MaxFeed
    /\ feedCount' = feedCount + 1
    /\ running' = FALSE
    /\ lastEvent' = EventOf(why, "", FALSE, 0, 0, NoSignal, "none", NoOrder)
    /\ UNCHANGED <<codecVars, procVars, extVars, segVars, closeVars, streamVars, storeVars, sharedVars,
                   last_prices, sentiment_scores, signal_count, order_count, now, order_ids>>

StrategyNext ==
    \/ \E symbol \in Symbols, has_price \in BOOLEAN, price \in PriceInputs,
          send_fails \in BOOLEAN, quantity \in QuantityInputs, tick \in TickInputs :
          ProcessMarketData(symbol, has_price, price, send_fails, quantity, tick)
    \/ \E symbol \in Symbols, score \in ScoreInputs : ProcessNews(symbol, score)
    \/ \E why \in {"shutdown", "feed broken"} : LeaveLoop(why)

SpecStrategy == Init /\ [][StrategyNext]_vars

\* ------------------------------------------------------------------------
\* Properties of the message protocol
\* ------------------------------------------------------------------------
\* C1: whatever non-empty chunks the transport cuts the bytes of encode(m)
\* into, down to one byte per recv, the read_message call that reads the frame
\* returns a message of the same kind and payload as m.
C1_FramingUnderFragmentation ==
    \A i \in 1..Len(returned) :
        /\ i <= Len(sent)
        /\ returned[i].ok
        /\ returned[i].msg.msg_type = sent[i].msg_type
        /\ returned[i].msg.data = sent[i].data

\* a frame with a nested payload was read one byte per recv call
C1_Witness ==
    \E i \in 1..Len(returned) :
        /\ returned[i].bytewise
        /\ returned[i].fragmented
        /\ returned[i].ok
        /\ returned[i].msg = sent[i]
        /\ returned[i].msg.data.v # <<>>

\* C2: for every message m of any of the 8 kinds with a JSON-compatible
\* payload, deserialize of serialize(m) without its 4-byte prefix succeeds and
\* yields the kind and the payload of m.
C2_RoundTrip ==
    codecDone =>
        /\ codecOut.ok
        /\ codecOut.msg.msg_type = codecIn.msg_type
        /\ codecOut.msg.data = codecIn.data

\* the round trip ran on a Shutdown message with a two-key payload holding an
\* escaped string
C2_Witness ==
    /\ codecDone
    /\ codecOut.ok
    /\ codecIn.msg_type = 8
    /\ Len(codecIn.data.v) = 2
    /\ codecIn.data.v[1][2] = JStr(<<97, 34, 92>>)
    /\ codecOut.msg = codecIn

\* the value holds none of NaN, Infinity, -Infinity, which are not JSON
RECURSIVE StrictJson(_)
StrictJson(x) ==
    CASE x.k = "const" -> x.v \in {"true", "false", "null"}
      [] x.k = "list"  -> \A j \in 1..Len(x.v) : StrictJson(x.v[j])
      [] x.k = "dict"  -> \A j \in 1..Len(x.v) : StrictJson(x.v[j][2])
      [] OTHER         -> TRUE

\* the value is an object whose 'type' is one of the integers 1 to 8
TagIsKind(x) ==
    /\ x.k = "dict"
    /\ HasKey(x, KeyType)
    /\ DictGet(x, KeyType).k = "int"
    /\ DictGet(x, KeyType).v \in 1..8

\* C12: deserialize raises, and returns no Message, whenever the frame body
\* is not well-formed JSON text or its type tag is not one of the integers 1
\* to 8.
C12_DecodeRejects ==
    codecDone =>
        ((~Loads(frameBody).ok
             \/ ~StrictJson(Loads(frameBody).val)
             \/ ~TagIsKind(Loads(frameBody).val))
            => (~codecOut.ok /\ codecOut.msg = NoMessage))

\* the keys the consumers of a payload index without a default: OrderBook
\* for MARKET_DATA, Strategy for NEWS_SENTIMENT, OrderManager for ORDER
RequiredKeys(kind) ==
    CASE kind = 1 -> {<<115, 121, 109, 98, 111, 108>>, KeyBids, KeyAsks}
      [] kind = 2 -> {<<115, 121, 109, 98, 111, 108>>, <<115, 99, 111, 114, 101>>}
      [] kind = 4 -> {<<115, 121, 109, 98, 111, 108>>, <<115, 105, 100, 101>>, <<113, 117, 97, 110, 116, 105, 116, 121>>, <<112, 114, 105, 99, 101>>}
      [] OTHER    -> {}

\* the payload is an object that has the keys of its kind
ShapeOk(m) == m.data.k = "dict" /\ \A key \in RequiredKeys(m.msg_type) : HasKey(m.data, key)

\* C13: deserialize rejects every frame whose payload does not have the shape
\* of its kind, such as a MARKET_DATA frame without symbol or levels or an ORDER
\* frame without price: a Message it returns has a payload that fits its kind.
C13_ShapeChecked ==
    (codecDone /\ codecOut.ok) => ShapeOk(codecOut.msg)

\* the frames of the messages sent and not yet handed to a completed call
RECURSIVE FramesFrom(_, _)
FramesFrom(ms, i) == IF i > Len(ms) THEN <<>> ELSE Serialize(ms[i]) \o FramesFrom(ms, i + 1)

\* C10: each read_message call takes exactly L + 4 bytes from the stream, L the
\* length prefix of its frame, and reports L + 4 as its size; between calls the
\* stream holds exactly the frames not read yet, so k calls return the k
\* messages sent, in order.
C10_FrameBoundaries ==
    /\ \A i \in 1..Len(returned) :
          /\ i <= Len(sent)
          /\ returned[i].size = Len(BodyOf(sent[i])) + 4
          /\ returned[i].consumed = returned[i].size
    /\ rpc = "idle" => wire = FramesFrom(sent, Len(returned) + 1)
    /\ [i \in 1..Len(returned) |-> returned[i].msg] = SubSeq(sent, 1, Len(returned))

\* two different frames sent back to back were both read
C10_Witness ==
    /\ Len(returned) = 2
    /\ Len(sent) = 2
    /\ sent[1] # sent[2]
    /\ returned[1].size # returned[2].size
    /\ returned[1].msg = sent[1]
    /\ returned[2].msg = sent[2]


\* C11: when the peer closes the stream before the 4 length bytes or before
\* all body bytes of a frame have arrived, also after part of the prefix or
\* part of the body, read_message raises ConnectionError and returns no
\* message: only whole frames sent are ever returned.
C11_BrokenConnection ==
    /\ eofSeen => rpc = "broken"
    /\ rpc = "broken" =>
          /\ peerClosed
          /\ wire = <<>>
          /\ Len(length_bytes) < 4 \/ Len(data) < length
          /\ consumed = Len(length_bytes) + Len(data)
    /\ Len(returned) <= Len(sent)
    /\ \A i \in 1..Len(returned) : returned[i].ok /\ returned[i].msg = sent[i]

\* the stream closed in the middle of the body of the second frame
C11_Witness ==
    /\ rpc = "broken"
    /\ Len(returned) = 1
    /\ Len(length_bytes) = 4
    /\ Len(data) > 0
    /\ Len(data) < length


\* ------------------------------------------------------------------------
\* Properties of the shared order-book store
\* ------------------------------------------------------------------------
\* C4: after any sequence of successful write_orderbook calls on one segment,
\* whatever the lengths of their payloads, read_orderbook returns a snapshot
\* whose bids and asks are the arguments of the most recent successful write.
C4_ReadReturnsLastWrite ==
    (readFresh /\ lastWrite.kind = "snapshot") =>
        /\ readResult.kind = "snapshot"
        /\ readResult.bids = lastWrite.bids
        /\ readResult.asks = lastWrite.asks

\* C5: a write whose payload is exactly MEMORY_SIZE - HEADER_SIZE bytes long
\* succeeds and a following read returns its snapshot; a write whose payload is
\* one byte longer fails, leaves header and payload region as they were, and a
\* following read returns the snapshot of the last successful write, with its
\* timestamp, bids and asks.
C5_CapacityBoundary ==
    /\ (lastWriteCall.called /\ lastWriteCall.paylen = MEMORY_SIZE - HEADER_SIZE) =>
          /\ lastWriteCall.ok
          /\ shmHeader.timestamp = lastWriteCall.timestamp
          /\ readFresh =>
                readResult = Snapshot(lastWriteCall.timestamp, lastWriteCall.bids,
                                      lastWriteCall.asks)
    /\ (lastWriteCall.called /\ lastWriteCall.paylen = MEMORY_SIZE - HEADER_SIZE + 1) =>
          /\ ~lastWriteCall.ok
          /\ shmHeader = lastWriteCall.headerBefore
          /\ shmPayload = lastWriteCall.payloadBefore
          /\ (readFresh /\ lastWrite.kind = "snapshot") => readResult = lastWrite


\* C3: a reader never observes a torn snapshot: the timestamp, bids and asks of
\* every non-None result of read_orderbook all come from one and the same
\* write_orderbook call, also when a write runs while the read does.
C3_NoTornSnapshot ==
    readResult.kind = "snapshot" => readResult \in writes



\* ------------------------------------------------------------------------
\* Properties of the segment's life
\* ------------------------------------------------------------------------
\* the latest get_best_bid_ask ran on the segment as it is now
BestFresh == bestResult.gen = segGen /\ bestResult.at = clock /\ readFresh

\* C14: on a segment just created, before any write_orderbook call, the stored
\* timestamp is zero, read_orderbook returns None and get_best_bid_ask returns
\* None, also when a segment of the same name with published data existed
\* before the creation.
C14_FreshSegmentEmpty ==
    (segExists /\ ~lastWriteCall.called) =>
        /\ shmHeader.timestamp = 0
        /\ (HandleAttached /\ readFresh) => readResult = NoSnapshot
        /\ (HandleAttached /\ BestFresh) => bestResult.res = NoBest

\* a segment with published data was replaced and the new one read
C14_Witness ==
    /\ HandleAttached
    /\ ~lastWriteCall.called
    /\ lastOpen.create
    /\ lastOpen.ok
    /\ lastOpen.published
    /\ BestFresh
    /\ readResult = NoSnapshot
    /\ bestResult.res = NoBest

\* C15: on a segment just created, a successful write_orderbook(bids, asks)
\* followed by read_orderbook returns a snapshot with a non-zero timestamp and
\* with as many bids and asks as written, in the same order, with the same
\* price and size at every position.
C15_FirstWriteReadBack ==
    (HandleAttached /\ readFresh /\ lastWriteCall.called /\ lastWriteCall.ok
        /\ lastWriteCall.headerBefore.timestamp = 0) =>
        /\ readResult.kind = "snapshot"
        /\ readResult.timestamp # 0
        /\ Len(readResult.bids) = Len(lastWriteCall.bids)
        /\ Len(readResult.asks) = Len(lastWriteCall.asks)
        /\ \A j \in 1..Len(lastWriteCall.bids) :
              /\ readResult.bids[j][1] = lastWriteCall.bids[j][1]
              /\ readResult.bids[j][2] = lastWriteCall.bids[j][2]
        /\ \A j \in 1..Len(lastWriteCall.asks) :
              /\ readResult.asks[j][1] = lastWriteCall.asks[j][1]
              /\ readResult.asks[j][2] = lastWriteCall.asks[j][2]

\* the first write on a segment that replaced one with a longer book, read back
C15_Witness ==
    /\ HandleAttached
    /\ readFresh
    /\ lastWriteCall.ok
    /\ lastWriteCall.headerBefore.timestamp = 0
    /\ lastOpen.published
    /\ segGen = 2
    /\ readResult.kind = "snapshot"
    /\ Len(readResult.bids) = 1
    /\ readResult.bids[1][1] # readResult.bids[1][2]
    /\ readResult.asks = lastWriteCall.asks

\* C16: get_best_bid_ask returns the price of the first bid level and the
\* price of the first ask level of the snapshot read_orderbook returns, and
\* None when there is no snapshot or when one of its sides is empty.
C16_BestBidAsk ==
    (HandleAttached /\ BestFresh) =>
        IF readResult.kind = "snapshot"
        THEN IF readResult.bids # <<>> /\ readResult.asks # <<>>
             THEN /\ bestResult.res.kind = "pair"
                  /\ bestResult.res.bid = readResult.bids[1][1]
                  /\ bestResult.res.ask = readResult.asks[1][1]
             ELSE bestResult.res = NoBest
        ELSE readResult.kind = "none" => bestResult.res = NoBest

\* the best prices of a book with two bid levels
C16_Witness ==
    /\ HandleAttached
    /\ BestFresh
    /\ bestResult.res.kind = "pair"
    /\ Len(readResult.bids) = 2
    /\ bestResult.res.bid = JFloat(1, 2, <<0>>)
    /\ bestResult.res.ask = JFloat(1, 1, <<0>>)

\* C17: a constructor call with create=True ends with a new segment under the
\* name, the one that existed destroyed, or with an error; a call with
\* create=False while no segment of the name exists ends with an error and
\* creates nothing.
C17_OpenOutcomes ==
    [][openCount' = openCount + 1 =>
          /\ lastOpen'.create =>
                \/ /\ lastOpen'.ok
                   /\ segExists'
                   /\ segGen' = segGen + 1
                   /\ handleGen' = segGen'
                   /\ shmHeader' = ZeroHeader
                   /\ shmPayload' = ZeroPayload
                \/ /\ ~lastOpen'.ok
                   /\ handleGen' = 0
                   /\ segGen' = segGen
          /\ (~lastOpen'.create /\ ~segExists) =>
                /\ ~lastOpen'.ok
                /\ ~segExists'
                /\ segGen' = segGen
                /\ handleGen' = 0]_vars

\* an attach after the segment was unlinked failed and left nothing behind
C17_Witness ==
    /\ lastOpen.called
    /\ ~lastOpen.create
    /\ ~lastOpen.ok
    /\ ~lastOpen.existed
    /\ ~segExists
    /\ handleGen = 0

\* ------------------------------------------------------------------------
\* Properties of the Strategy
\* ------------------------------------------------------------------------
\* the thresholds as the numbers of Config: 0.005 = 5/1000 and 0.3 = 3/10,
\* compared with (price - prev) / prev and with value / SentScale
MarketEvent == lastEvent.kind = "market" /\ lastEvent.price > 0

RoseAbove == 1000 * (lastEvent.price - lastEvent.prev) > 5 * lastEvent.prev

FellBelow == 1000 * (lastEvent.price - lastEvent.prev) < -5 * lastEvent.prev

SentimentAbove == 10 * lastEvent.sentiment_before > 3 * SentScale

SentimentBelow == 10 * lastEvent.sentiment_before < -3 * SentScale

\* C6: for a symbol with a recorded previous price, a market data message
\* with a positive last price emits BUY exactly when the relative price change
\* is above 0.005 and the symbol's sentiment is above 0.3, SELL exactly when
\* the change is below -0.005 and the sentiment below -0.3, and nothing
\* otherwise; a change or a sentiment equal to its threshold does not trigger.
\* The signal carries the symbol, the price, the change and the sentiment.
C6_SignalGating ==
    (MarketEvent /\ lastEvent.had_prev) =>
        /\ lastEvent.signal.action = "BUY" <=> (RoseAbove /\ SentimentAbove)
        /\ lastEvent.signal.action = "SELL" <=> (FellBelow /\ SentimentBelow)
        /\ lastEvent.signal.action \in {"BUY", "SELL", "NONE"}
        /\ lastEvent.signal.action # "NONE" =>
              /\ lastEvent.signal.symbol = lastEvent.symbol
              /\ lastEvent.signal.price = lastEvent.price
              /\ lastEvent.signal.price_change.num = lastEvent.price - lastEvent.prev
              /\ lastEvent.signal.price_change.den = lastEvent.prev
              /\ lastEvent.signal.sentiment = lastEvent.sentiment_before
              /\ signal_count = lastEvent.signals_before + 1
        /\ lastEvent.signal.action = "NONE" =>
              /\ lastEvent.send = "none"
              /\ signal_count = lastEvent.signals_before
        /\ (1000 * (lastEvent.price - lastEvent.prev) = 5 * lastEvent.prev
              \/ 1000 * (lastEvent.price - lastEvent.prev) = -5 * lastEvent.prev
              \/ 10 * lastEvent.sentiment_before = 3 * SentScale
              \/ 10 * lastEvent.sentiment_before = -3 * SentScale)
                 => lastEvent.signal.action = "NONE"

\* previous price 100.0, new price 100.6, sentiment 0.51: BUY
C6_Witness ==
    /\ MarketEvent
    /\ lastEvent.had_prev
    /\ lastEvent.prev = 1000
    /\ lastEvent.price = 1006
    /\ 100 * lastEvent.sentiment_before = 51 * SentScale
    /\ lastEvent.signal.action = "BUY"

\* C7: after a market data message with a positive last price the recorded
\* previous price of its symbol is that price, whether a signal fired or not,
\* on the first observation and when the order could not be sent; a message
\* with a non-positive or absent last price leaves the recorded prices as they
\* were and emits nothing.
C7_LastPriceAlwaysUpdated ==
    lastEvent.kind = "market" =>
        IF lastEvent.price > 0
        THEN /\ lastEvent.symbol \in DOMAIN last_prices
             /\ last_prices[lastEvent.symbol] = lastEvent.price
        ELSE /\ lastEvent.symbol \in DOMAIN last_prices <=> lastEvent.had_prev
             /\ lastEvent.had_prev => last_prices[lastEvent.symbol] = lastEvent.prev
             /\ lastEvent.signal.action = "NONE"
             /\ lastEvent.send = "none"
             /\ signal_count = lastEvent.signals_before
             /\ order_count = lastEvent.orders_before

\* the send of the order failed and the price was still recorded
C7_Witness ==
    /\ MarketEvent
    /\ lastEvent.send = "failed"
    /\ lastEvent.prev # lastEvent.price
    /\ last_prices[lastEvent.symbol] = lastEvent.price

\* C8: the first market data message with a positive last price for a symbol
\* produces no signal and no order whatever the symbol's sentiment is, and
\* records the price.
C8_ColdStart ==
    (MarketEvent /\ ~lastEvent.had_prev) =>
        /\ lastEvent.signal.action = "NONE"
        /\ lastEvent.send = "none"
        /\ lastEvent.order = NoOrder
        /\ signal_count = lastEvent.signals_before
        /\ order_count = lastEvent.orders_before
        /\ lastEvent.symbol \in DOMAIN last_prices
        /\ last_prices[lastEvent.symbol] = lastEvent.price

\* a first observation while the sentiment is beyond the threshold
C8_Witness ==
    /\ MarketEvent
    /\ ~lastEvent.had_prev
    /\ SentimentAbove \/ SentimentBelow
    /\ lastEvent.signal.action = "NONE"

\* C9: a news message sets the symbol's sentiment to 0.3 * score + 0.7 * old
\* value, the old value being 0.0 for a symbol without one, emits no signal and
\* sends no order; from 0.0 a score of 1.0 gives 0.3 and a second one 0.51.
C9_SentimentAverage ==
    lastEvent.kind = "news" =>
        /\ lastEvent.symbol \in DOMAIN sentiment_scores
        /\ ~lastEvent.had_sentiment => lastEvent.sentiment_before = 0
        /\ 10 * sentiment_scores[lastEvent.symbol]
              = 3 * lastEvent.score * (SentScale \div 10) + 7 * lastEvent.sentiment_before
        /\ (lastEvent.score = 10 /\ lastEvent.sentiment_before = 0)
              => 10 * sentiment_scores[lastEvent.symbol] = 3 * SentScale
        /\ (lastEvent.score = 10 /\ 10 * lastEvent.sentiment_before = 3 * SentScale)
              => 100 * sentiment_scores[lastEvent.symbol] = 51 * SentScale
        /\ lastEvent.signal.action = "NONE"
        /\ lastEvent.send = "none"
        /\ signal_count = lastEvent.signals_before
        /\ order_count = lastEvent.orders_before

\* the second of two scores of 1.0 for a symbol that started without a value
C9_Witness ==
    /\ lastEvent.kind = "news"
    /\ lastEvent.score = 10
    /\ 10 * lastEvent.sentiment_before = 3 * SentScale
    /\ 100 * sentiment_scores[lastEvent.symbol] = 51 * SentScale


\* C18: when sendall of an order raises, the run loop goes on with the feed,
\* the sentiment of every symbol is what it was (as after a send that
\* succeeded), the previous price of the symbol is the new last price, and
\* order_count is not incremented.
C18_SendFailure ==
    (lastEvent.kind = "market" /\ lastEvent.send = "failed") =>
        /\ running
        /\ sentiment_scores = lastEvent.sentiments_before
        /\ lastEvent.symbol \in DOMAIN last_prices
        /\ last_prices[lastEvent.symbol] = lastEvent.price
        /\ order_count = lastEvent.orders_before
        /\ signal_count = lastEvent.signals_before + 1

\* a SELL order for a symbol with a sentiment could not be sent
C18_Witness ==
    /\ lastEvent.kind = "market"
    /\ lastEvent.send = "failed"
    /\ lastEvent.signal.action = "SELL"
    /\ running
    /\ order_count = 0
    /\ signal_count = 1
    /\ last_prices[lastEvent.symbol] = 994

\* C19: an order built from a fired signal has the signal's symbol, the
\* signal's action as side, the signal's price (the last price that fired it),
\* an integer quantity from 10 to 100, and the signal's price change and
\* sentiment as provenance.
C19_OrderFromSignal ==
    (lastEvent.kind = "market" /\ lastEvent.signal.action # "NONE") =>
        /\ lastEvent.order.symbol = lastEvent.symbol
        /\ lastEvent.order.symbol = lastEvent.signal.symbol
        /\ lastEvent.order.side = lastEvent.signal.action
        /\ lastEvent.order.side = (IF RoseAbove THEN "BUY" ELSE "SELL")
        /\ lastEvent.order.price = lastEvent.price
        /\ lastEvent.order.quantity \in 10..100
        /\ lastEvent.order.signal_data.price_change.num = lastEvent.price - lastEvent.prev
        /\ lastEvent.order.signal_data.price_change.den = lastEvent.prev
        /\ lastEvent.order.signal_data.sentiment = lastEvent.sentiment_before

\* a SELL order of 100 units
C19_Witness ==
    /\ lastEvent.kind = "market"
    /\ lastEvent.order.side = "SELL"
    /\ lastEvent.order.quantity = 100
    /\ lastEvent.order.price = 994
    /\ lastEvent.order.symbol = "GOOGL"

\* C20: any two orders one Strategy process creates have different order
\* identifiers, the later order's identifier being the greater, however close
\* in time the two market data messages are processed.
C20_OrderIdsUnique ==
    \A i, j \in 1..Len(order_ids) : i < j => order_ids[i] < order_ids[j]

\* ------------------------------------------------------------------------
\* OrderManager (src/processes/ordermanager.py): one connection's handler
\* ------------------------------------------------------------------------
\* Prices and the volume are integers, in hundredths of a currency unit; the
\* slippage is an integer in units of 1/SlipScale.
SlipScale == Pow10(6)

\* line 68: values random.uniform(-0.001, 0.001) can return, both ends included
SlippageInputs == {-1000, -998, 0, 998, 1000}

\* lines 69 and 78: round(order['price'] * (1 + slippage), 2), as the set of
\* hundredths the rounding can give: the nearest one, and either neighbour when
\* the exact product lies half way (the float product then lies on one side)
ExecutionPrices(price, slippage) ==
    LET num == price * (SlipScale + slippage)
        q   == num \div SlipScale
        r   == num % SlipScale
    IN  IF 2 * r < SlipScale THEN {q}
        ELSE IF 2 * r > SlipScale THEN {q + 1}
        ELSE {q, q + 1}

\* lines 71-81: the execution of an order at an execution price
ExecuteOrder(order, execution_price) ==
    [order_id |-> order.order_id, symbol |-> order.symbol, side |-> order.side,
     quantity |-> order.quantity, order_price |-> order.price,
     execution_price |-> execution_price, status |-> "FILLED"]

\* lines 91-95: the line is appended, or the failure is logged and swallowed
LogTrade(log, execution, log_fails) == IF log_fails THEN log ELSE Append(log, execution)

\* faulty variant of TotalsAfterOrder: the trade is logged before it is counted
\* and a failed append ends process_order
TotalsAfterOrderLogFirst(totals, order, execution, log_fails) ==
    IF log_fails THEN [totals EXCEPT !.orders = @ + 1]
    ELSE [orders |-> totals.orders + 1, executed |-> totals.executed + 1,
          volume |-> totals.volume + order.quantity * execution.execution_price]

\* lines 107-113: the totals advance before log_trade runs (line 116)
TotalsAfterOrder(totals, order, execution, log_fails) ==
    [orders |-> totals.orders + 1, executed |-> totals.executed + 1,
     volume |-> totals.volume + order.quantity * execution.execution_price]

\* The payloads of the ORDER messages read: read_message returns whatever JSON
\* value the frame holds, so a payload can lack 'price' or hold a text for it
OrderInputs ==
    { [shape |-> "order", order_id |-> 1, symbol |-> "AAPL", side |-> "BUY",
       quantity |-> 10, price |-> 1000],
      [shape |-> "order", order_id |-> 2, symbol |-> "GOOGL", side |-> "SELL",
       quantity |-> 1, price |-> 1560],
      [shape |-> "no price", order_id |-> 3, symbol |-> "AAPL", side |-> "BUY",
       quantity |-> 10, price |-> 0],
      [shape |-> "text price", order_id |-> 4, symbol |-> "AAPL", side |-> "BUY",
       quantity |-> 10, price |-> 0] }

OrderEventOf(order, slippage, log_fails, execution) ==
    [kind |-> "order", order |-> order, slippage |-> slippage, log_fails |-> log_fails,
     execution |-> execution,
     before |-> [orders |-> total_orders, executed |-> total_executed,
                 volume |-> total_volume],
     trades_before |-> Len(executed_trades), log_before |-> trade_log,
     failures_before |-> total_executed - Len(trade_log)]

\* handle_client lines 133-137 and 146-147 with process_order, lines 103-118,
\* on one ORDER message.  A payload without 'price' raises KeyError at line 103,
\* before anything is counted; a text as price raises TypeError at line 69,
\* after line 107 counted the order; handle_client logs either and reads on.
ProcessOrder(order, slippage, execution_price, log_fails) ==
    /\ omOpen
    /\ omCount < MaxOrders
    /\ omCount' = omCount + 1
    /\ IF order.shape = "order"
       THEN LET execution == ExecuteOrder(order, execution_price)
                totals    == TotalsAfterOrder([orders |-> total_orders,
                                                executed |-> total_executed,
                                                volume |-> total_volume],
                                               order, execution, log_fails)
            IN  /\ execution_price \in ExecutionPrices(order.price, slippage)
                /\ total_orders' = totals.orders
                /\ total_executed' = totals.executed
                /\ total_volume' = totals.volume
                /\ executed_trades' = Append(executed_trades, execution)
                /\ trade_log' = LogTrade(trade_log, execution, log_fails)
                /\ omEvent' = OrderEventOf(order, slippage, log_fails, execution)
       ELSE /\ slippage = 0
            /\ execution_price = 0
            /\ ~log_fails
            /\ total_orders' = IF order.shape = "text price" THEN total_orders + 1
                               ELSE total_orders
            /\ omEvent' = OrderEventOf(order, 0, FALSE, NoExecution)
            /\ UNCHANGED <<total_executed, total_volume, executed_trades, trade_log>>
    /\ UNCHANGED <<codecVars, streamVars, storeVars, sharedVars, stratVars, closeVars, segVars, extVars,
                   bookVars, runVars, omOpen>>

\* handle_client lines 139-141 and 143-145: a SHUTDOWN message, or a
\* ConnectionError of read_message, ends the handler
HandlerLeaves(why) ==
    /\ omOpen
    /\ omOpen' = FALSE
    /\ omEvent' = [NoOrderEvent EXCEPT !.kind = why]
    /\ UNCHANGED <<codecVars, streamVars, storeVars, sharedVars, stratVars, closeVars, segVars, extVars,
                   bookVars, runVars, total_orders, total_executed, total_volume,
                   executed_trades, trade_log, omCount>>

\* the execution prices the inputs can give
ExecutionPriceInputs ==
    {0} \cup UNION { ExecutionPrices(o.price, s) : o \in OrderInputs, s \in SlippageInputs }

OrderManagerNext ==
    \/ \E order \in OrderInputs, slippage \in SlippageInputs,
          execution_price \in ExecutionPriceInputs, log_fails \in BOOLEAN :
          ProcessOrder(order, slippage, execution_price, log_fails)
    \/ \E why \in {"shutdown", "disconnected"} : HandlerLeaves(why)

SpecOrderManager == Init /\ [][OrderManagerNext]_vars

\* the last ORDER message read was executed
OrderExecuted ==
    /\ omEvent.kind = "order"
    /\ omEvent.execution.status = "FILLED"

\* C21: the execution price recorded for an order of price P lies in
\* [P * 0.999, P * 1.001]
C21_ExecutionPriceBounds ==
    OrderExecuted =>
        /\ 1000 * omEvent.execution.execution_price >= 999 * omEvent.order.price
        /\ 1000 * omEvent.execution.execution_price <= 1001 * omEvent.order.price

\* C22: every ORDER message read produces exactly one execution, FILLED, with
\* the order's identifier, symbol, side, quantity and price, and advances the
\* totals by one order, one executed order and quantity times execution
\* price; the order count equals the executed count after any sequence of
\* orders
C22_EveryOrderExecuted ==
    /\ total_orders = total_executed
    /\ omEvent.kind = "order" =>
          /\ omEvent.execution.status = "FILLED"
          /\ Len(executed_trades) = omEvent.trades_before + 1
          /\ executed_trades[Len(executed_trades)] = omEvent.execution
          /\ omEvent.execution.order_id = omEvent.order.order_id
          /\ omEvent.execution.symbol = omEvent.order.symbol
          /\ omEvent.execution.side = omEvent.order.side
          /\ omEvent.execution.quantity = omEvent.order.quantity
          /\ omEvent.execution.order_price = omEvent.order.price
          /\ total_orders = omEvent.before.orders + 1
          /\ total_executed = omEvent.before.executed + 1
          /\ total_volume = omEvent.before.volume
                            + omEvent.order.quantity * omEvent.execution.execution_price

\* C23: a failed append to the trade log leaves the order counted in the order
\* count, the executed count and the volume and the handler reading, and the
\* orders read after it are executed and counted as well
C23_LogFailureTolerated ==
    (OrderExecuted /\ (omEvent.log_fails \/ omEvent.failures_before > 0)) =>
        /\ omOpen
        /\ total_orders = omEvent.before.orders + 1
        /\ total_executed = omEvent.before.executed + 1
        /\ total_volume = omEvent.before.volume
                          + omEvent.order.quantity * omEvent.execution.execution_price
        /\ executed_trades[Len(executed_trades)] = omEvent.execution
        /\ omEvent.log_fails => trade_log = omEvent.log_before

\* an order was executed after the append of an earlier execution had failed
C23_Witness ==
    /\ OrderExecuted
    /\ omEvent.failures_before > 0
    /\ ~omEvent.log_fails
    /\ total_executed >= 2

\* ------------------------------------------------------------------------
\* OrderBook (src/processes/orderbook.py): the MARKET_DATA branch of run
\* ------------------------------------------------------------------------
\* Config.SYMBOLS[0]
PrimarySymbol == "AAPL"

\* float(price), float(size) of lines 57-58: a JSON integer becomes a float
ToFloat(x) ==
    IF x.k = "int" THEN JFloat(IF x.v < 0 THEN -1 ELSE 1, IF x.v < 0 THEN -x.v ELSE x.v, <<0>>)
    ELSE x

\* lines 57-58: [(float(price), float(size)) for price, size in data[...]]
FloatLevels(levels) ==
    [j \in 1..Len(levels) |-> <<ToFloat(levels[j][1]), ToFloat(levels[j][2])>>]

\* faulty variant of Published: the book of every symbol is written to the store
PublishedAny(symbol) == TRUE

\* line 72: if symbol == Config.SYMBOLS[0]
Published(symbol) == symbol = PrimarySymbol

\* a level as a message carries it when the generator's numbers are whole
LevelInt == <<JInt(2), JInt(1)>>

\* data['bids'] and data['asks'] of the messages read
BookBidInputs == {<<>>, <<LevelInt>>, <<LevelA, LevelC>>, <<LevelA, LevelB>>}

BookAskInputs == {<<>>, <<LevelC>>, <<LevelB>>}

BookEventOf(symbol, bids, asks, timestamp, raised, interval_elapsed) ==
    [kind |-> "market", symbol |-> symbol, bids |-> bids, asks |-> asks,
     timestamp |-> timestamp, raised |-> raised, interval_elapsed |-> interval_elapsed,
     written_at |-> clock, header_before |-> shmHeader, payload_before |-> shmPayload,
     updates_before |-> update_count]

\* run lines 112-122 and 131-132 on one MARKET_DATA message: process_market_data
\* (lines 56-74) with write_orderbook, then the statistics of lines 116-122.
\* timestamp: data['timestamp']; interval_elapsed: BENCHMARK_LOG_INTERVAL has
\* passed since the statistics were logged last.  A ValueError of
\* write_orderbook leaves process_market_data at line 73 and the try block at
\* line 113; run logs it and reads on.
BookMarketData(symbol, msg_bids, msg_asks, timestamp, interval_elapsed) ==
    LET bids       == FloatLevels(msg_bids)
        asks       == FloatLevels(msg_asks)
        json_bytes == EncodeBook(bids, asks)
        raised     == Published(symbol) /\ TooLarge(json_bytes)
    IN  /\ bookLoop = "running"
        /\ bookCount < MaxBookMsgs
        /\ bookCount' = bookCount + 1
        /\ order_books' = DictSet(order_books, symbol,
                                  [timestamp |-> timestamp, bids |-> bids, asks |-> asks])
        /\ bookEvent' = BookEventOf(symbol, bids, asks, timestamp, raised, interval_elapsed)
        /\ IF Published(symbol) /\ ~raised
           THEN /\ shmHeader' = Header(clock, Len(bids), Len(asks))
                /\ shmPayload' = PayloadAfterWrite(shmPayload, json_bytes)
                /\ clock' = clock + 1
                /\ lastWrite' = Snapshot(clock, bids, asks)
                /\ readFresh' = FALSE
           ELSE UNCHANGED <<shmHeader, shmPayload, clock, lastWrite, readFresh>>
        /\ update_count' =
              IF raised THEN update_count
              ELSE IF interval_elapsed THEN 0
              ELSE IF Published(symbol) THEN update_count + 1
              ELSE update_count
        /\ UNCHANGED <<codecVars, streamVars, sharedVars, stratVars, closeVars, segVars, extVars,
                       omVars, runVars, lastWriteCall, readResult>>

OrderBookNext ==
    \E symbol \in Symbols, msg_bids \in BookBidInputs, msg_asks \in BookAskInputs,
       timestamp \in {bookCount + 1}, interval_elapsed \in BOOLEAN :
       BookMarketData(symbol, msg_bids, msg_asks, timestamp, interval_elapsed)

SpecOrderBook == Init /\ [][OrderBookNext]_vars

\* the local entry of the symbol of the message processed last holds the
\* message's timestamp and levels
LocalEntryUpdated ==
    /\ bookEvent.symbol \in DOMAIN order_books
    /\ order_books[bookEvent.symbol] =
          [timestamp |-> bookEvent.timestamp, bids |-> bookEvent.bids,
           asks |-> bookEvent.asks]

StoreUntouched ==
    /\ shmHeader = bookEvent.header_before
    /\ shmPayload = bookEvent.payload_before

\* the store holds the levels of the message processed last
StoreHoldsLevels ==
    LET json_bytes == EncodeBook(bookEvent.bids, bookEvent.asks)
    IN  /\ shmHeader = Header(bookEvent.written_at, Len(bookEvent.bids), Len(bookEvent.asks))
        /\ Len(json_bytes) <= Len(shmPayload)
        /\ Take(shmPayload, Len(json_bytes)) = json_bytes

\* C24 as stated: a MARKET_DATA message of another symbol than the primary one
\* updates the local entry of its symbol and leaves the store and the update
\* counter unchanged; one of the primary symbol writes its levels to the store
C24_NonPrimaryNotPublished ==
    bookEvent.kind = "market" =>
        /\ LocalEntryUpdated
        /\ bookEvent.symbol # PrimarySymbol =>
              (StoreUntouched /\ update_count = bookEvent.updates_before)
        /\ bookEvent.symbol = PrimarySymbol => StoreHoldsLevels

\* C24 as amended: a message of another symbol updates the local entry, leaves
\* the store unchanged and leaves the update counter unchanged or, when the
\* statistics fall due on it, reset to zero; a message of the primary symbol
\* whose encoded levels fit the store writes them and adds one to the counter
\* (or resets it likewise), and one whose levels do not fit leaves store and
\* counter unchanged
C24_PrimaryOnlyPublished ==
    bookEvent.kind = "market" =>
        /\ LocalEntryUpdated
        /\ bookEvent.symbol # PrimarySymbol =>
              /\ StoreUntouched
              /\ update_count = IF bookEvent.interval_elapsed THEN 0
                                ELSE bookEvent.updates_before
        /\ (bookEvent.symbol = PrimarySymbol
              /\ ~TooLarge(EncodeBook(bookEvent.bids, bookEvent.asks))) =>
              /\ StoreHoldsLevels
              /\ update_count = IF bookEvent.interval_elapsed THEN 0
                                ELSE bookEvent.updates_before + 1
        /\ (bookEvent.symbol = PrimarySymbol
              /\ TooLarge(EncodeBook(bookEvent.bids, bookEvent.asks))) =>
              /\ StoreUntouched
              /\ update_count = bookEvent.updates_before
              /\ bookEvent.raised

\* a message of another symbol was processed after the primary symbol's book
\* had been published
C24_Witness ==
    /\ bookEvent.kind = "market"
    /\ bookEvent.symbol # PrimarySymbol
    /\ bookEvent.bids # <<>>
    /\ bookEvent.header_before.timestamp > 0
    /\ bookEvent.updates_before = 1
    /\ ~bookEvent.interval_elapsed

\* ------------------------------------------------------------------------
\* The run loops of the processes (gateway.py, orderbook.py, strategy.py,
\* ordermanager.py): one process at a time, its accept loop, its read loop and
\* its send loop, each at "head" (the while condition), at "wait" (inside the
\* blocking call or the loop body), "exited", or "none" when not started
\* ------------------------------------------------------------------------
Roles == {"gateway", "orderbook", "strategy", "ordermanager"}

Servers == {"gateway", "ordermanager"}

\* the loop a server's accept loop starts for a client: Gateway.handle_client
\* sends, OrderManager.handle_client reads
Handler(r) == IF r = "gateway" THEN "send" ELSE "read"

\* connect_to_* calls of run(): OrderBook.run line 103, Strategy.run lines 236-237
Peers(r) == IF r = "orderbook" THEN 1 ELSE IF r = "strategy" THEN 2 ELSE 0

max_retries == 5

\* faulty variant of Retry: the last attempt is followed by one more
RetryOnceMore(n) == n < max_retries

\* lines 92-96 of connect_to_gateway: if attempt < max_retries - 1 the call
\* sleeps and tries again, else it raises RuntimeError
Retry(n) == n < max_retries - 1

\* What a frame on the stream does to the loop that reads it: "data" is a
\* message of a kind the loop has a branch for, "other" one of another kind,
\* "garbled" a body deserialize raises on, "raises" a message whose processing
\* raises, "shutdown" a SHUTDOWN message
FrameKinds == {"data", "other", "garbled", "raises", "shutdown"}

\* the try block of the read loops (OrderBook.run lines 107-132, Strategy.run
\* lines 243-268, OrderManager.handle_client lines 131-147) on a frame
OutcomeOf(kind) ==
    CASE kind = "data" -> "processed"
      [] kind = "other" -> "ignored"
      [] kind = "shutdown" -> "shutdown"
      [] OTHER -> "exception"

\* faulty variant of LoopAfter: any exception ends the loop
LoopAfterAnyError(outcome) ==
    IF outcome \in {"shutdown", "connection error", "flag", "exception"} THEN "exited"
    ELSE "head"

\* where the loop goes: break on a SHUTDOWN message and on ConnectionError, out
\* of the while on a set flag, back to the while condition after anything else
\* ("except Exception" logs and falls through)
LoopAfter(outcome) ==
    IF outcome \in {"shutdown", "connection error", "flag"} THEN "exited" ELSE "head"

\* faulty variant of TakeFrame: the frame sent last is taken first
TakeFrameNewest(q) == [frame |-> q[Len(q)], rest |-> SubSeq(q, 1, Len(q) - 1)]

\* read_message, protocol.py lines 86-107: the whole frame at the front of the
\* stream is taken before deserialize runs on its body
TakeFrame(q) == [frame |-> Head(q), rest |-> Tail(q)]

\* run() begins: a server at its accept loop, a client at its first connect call
RunInit ==
    /\ CodecIdle
    /\ StreamIdle
    /\ StoreCreated
    /\ HandlesOpened
    /\ StrategyCreated
    /\ StreamOpen
    /\ SegmentCreated
    /\ OrderManagerCreated
    /\ OrderBookCreated
    /\ ExtensionsIdle
    /\ role \in Roles
    /\ shutdown_event = FALSE
    /\ pc = [l \in Loops |-> IF l = "accept" /\ role \in Servers THEN "head"
                             ELSE IF l = "read" /\ role \notin Servers THEN "connect"
                             ELSE "none"]
    /\ attempt = 0
    /\ sleeps = 0
    /\ connected = 0
    /\ lastConnect = NoConnect
    /\ conn = "open"
    /\ inbox = <<>>
    /\ sentLog = <<>>
    /\ nread = 0
    /\ handled = <<>>
    /\ sawShutdown = FALSE
    /\ exitWhy = ""
    /\ connFailed = FALSE
    /\ retriedRead = FALSE
    /\ clientWaiting = FALSE

\* one pass of the for loop of connect_to_gateway / connect_to_ordermanager
\* (orderbook.py lines 85-96, strategy.py lines 63-74 and 85-96); ok: connect
\* succeeds
ConnectAttempt(ok) ==
    /\ pc["read"] = "connect"
    /\ IF ok
       THEN /\ connected' = connected + 1
            /\ lastConnect' = [called |-> TRUE, ok |-> TRUE, attempts |-> attempt + 1,
                               sleeps |-> sleeps]
            /\ attempt' = 0
            /\ sleeps' = 0
            /\ pc' = [pc EXCEPT !["read"] = IF connected + 1 = Peers(role) THEN "head"
                                            ELSE "connect"]
       ELSE IF Retry(attempt)
            THEN /\ sleeps' = sleeps + 1
                 /\ attempt' = attempt + 1
                 /\ UNCHANGED <<connected, lastConnect, pc>>
            ELSE /\ lastConnect' = [called |-> TRUE, ok |-> FALSE, attempts |-> attempt + 1,
                                    sleeps |-> sleeps]
                 /\ pc' = [pc EXCEPT !["read"] = "fatal"]
                 /\ UNCHANGED <<connected, attempt, sleeps>>
    /\ UNCHANGED <<codecVars, streamVars, storeVars, sharedVars, stratVars, closeVars, segVars, extVars,
                   omVars, bookVars, role, shutdown_event, conn, inbox, sentLog, nread,
                   handled, sawShutdown, exitWhy, connFailed, retriedRead, clientWaiting>>

\* the while condition of a read loop: out (and through finally, which closes
\* the socket) when the flag is set, else into read_message
ReadHead ==
    /\ pc["read"] = "head"
    /\ IF shutdown_event
       THEN /\ pc' = [pc EXCEPT !["read"] = LoopAfter("flag")]
            /\ exitWhy' = "flag"
            /\ UNCHANGED retriedRead
       ELSE /\ pc' = [pc EXCEPT !["read"] = "wait"]
            /\ retriedRead' = (retriedRead \/ connFailed)
            /\ UNCHANGED exitWhy
    /\ UNCHANGED <<codecVars, streamVars, storeVars, sharedVars, stratVars, closeVars, segVars, extVars,
                   omVars, bookVars, role, shutdown_event, attempt, sleeps, connected,
                   lastConnect, conn, inbox, sentLog, nread, handled, sawShutdown,
                   connFailed, clientWaiting>>

\* read_message returns or deserialize raises, and the loop body runs
ReadFrame ==
    /\ pc["read"] = "wait"
    /\ conn \in {"open", "peer closed"}
    /\ inbox # <<>>
    /\ LET taken   == TakeFrame(inbox)
           outcome == OutcomeOf(taken.frame.kind)
       IN  /\ inbox' = taken.rest
           /\ nread' = nread + 1
           /\ handled' = IF outcome = "processed" THEN Append(handled, taken.frame.id)
                         ELSE handled
           /\ sawShutdown' = (sawShutdown \/ outcome = "shutdown")
           /\ pc' = [pc EXCEPT !["read"] = LoopAfter(outcome)]
           /\ exitWhy' = IF LoopAfter(outcome) = "exited" THEN outcome ELSE exitWhy
    /\ UNCHANGED <<codecVars, streamVars, storeVars, sharedVars, stratVars, closeVars, segVars, extVars,
                   omVars, bookVars, role, shutdown_event, attempt, sleeps, connected,
                   lastConnect, conn, sentLog, connFailed, retriedRead, clientWaiting>>

\* recv returns an empty chunk: the peer has closed and nothing is left to
\* read; read_message raises ConnectionError (protocol.py lines 92-93)
ReadEof ==
    /\ pc["read"] = "wait"
    /\ conn = "peer closed"
    /\ inbox = <<>>
    /\ connFailed' = TRUE
    /\ pc' = [pc EXCEPT !["read"] = LoopAfter("connection error")]
    /\ exitWhy' = "connection error"
    /\ UNCHANGED <<codecVars, streamVars, storeVars, sharedVars, stratVars, closeVars, segVars, extVars,
                   omVars, bookVars, role, shutdown_event, attempt, sleeps, connected,
                   lastConnect, conn, inbox, sentLog, nread, handled, sawShutdown,
                   retriedRead, clientWaiting>>

\* recv raises.  "reset": ConnectionResetError, a ConnectionError; "oserror":
\* an OSError that is no ConnectionError (TimeoutError of ETIMEDOUT,
\* EHOSTUNREACH, ...), which only "except Exception" catches; "eof": the
\* failed socket reports end of stream.  What a failed socket gives the next
\* recv is the system's choice: the error again, or end of stream.
ReadError(next) ==
    /\ pc["read"] = "wait"
    /\ conn \in {"reset", "oserror", "eof"}
    /\ connFailed' = TRUE
    /\ LET outcome == IF conn = "oserror" THEN "exception" ELSE "connection error"
       IN  /\ pc' = [pc EXCEPT !["read"] = LoopAfter(outcome)]
           /\ exitWhy' = IF LoopAfter(outcome) = "exited" THEN outcome ELSE exitWhy
    /\ conn' = IF conn = "oserror" THEN next ELSE conn
    /\ (conn # "oserror" => next = "eof")
    /\ UNCHANGED <<codecVars, streamVars, storeVars, sharedVars, stratVars, closeVars, segVars, extVars,
                   omVars, bookVars, role, shutdown_event, attempt, sleeps, connected,
                   lastConnect, inbox, sentLog, nread, handled, sawShutdown, retriedRead,
                   clientWaiting>>

\* the peer sends a frame on the stream the read loop reads
PeerSends(kind) ==
    /\ pc["read"] \in {"head", "wait"}
    /\ conn = "open"
    /\ Len(sentLog) < MaxFrames
    /\ inbox' = Append(inbox, [id |-> Len(sentLog) + 1, kind |-> kind])
    /\ sentLog' = Append(sentLog, [id |-> Len(sentLog) + 1, kind |-> kind])
    /\ UNCHANGED <<codecVars, streamVars, storeVars, sharedVars, stratVars, closeVars, segVars, extVars,
                   omVars, bookVars, role, shutdown_event, pc, attempt, sleeps, connected,
                   lastConnect, conn, nread, handled, sawShutdown, exitWhy, connFailed,
                   retriedRead, clientWaiting>>

\* the connection ends: the peer closes it, or it fails
ConnBreaks(how) ==
    /\ pc["read"] \in {"head", "wait"}
    /\ conn = "open"
    /\ conn' = how
    /\ UNCHANGED <<codecVars, streamVars, storeVars, sharedVars, stratVars, closeVars, segVars, extVars,
                   omVars, bookVars, role, shutdown_event, pc, attempt, sleeps, connected,
                   lastConnect, inbox, sentLog, nread, handled, sawShutdown, exitWhy,
                   connFailed, retriedRead, clientWaiting>>

\* shutdown() of the process: self.shutdown_event.set()
Shutdown ==
    /\ ~shutdown_event
    /\ shutdown_event' = TRUE
    /\ UNCHANGED <<codecVars, streamVars, storeVars, sharedVars, stratVars, closeVars, segVars, extVars,
                   omVars, bookVars, role, pc, attempt, sleeps, connected, lastConnect, conn,
                   inbox, sentLog, nread, handled, sawShutdown, exitWhy, connFailed,
                   retriedRead, clientWaiting>>

\* a client connects to the listening socket of a server
ClientConnects ==
    /\ role \in Servers
    /\ pc["accept"] \in {"head", "wait"}
    /\ pc[Handler(role)] = "none"
    /\ ~clientWaiting
    /\ clientWaiting' = TRUE
    /\ UNCHANGED <<codecVars, streamVars, storeVars, sharedVars, stratVars, closeVars, segVars, extVars,
                   omVars, bookVars, role, shutdown_event, pc, attempt, sleeps, connected,
                   lastConnect, conn, inbox, sentLog, nread, handled, sawShutdown, exitWhy,
                   connFailed, retriedRead>>

\* the while condition of an accept loop (Gateway.run line 165,
\* OrderManager.run line 168)
AcceptHead ==
    /\ pc["accept"] = "head"
    /\ pc' = [pc EXCEPT !["accept"] = IF shutdown_event THEN "exited" ELSE "wait"]
    /\ UNCHANGED <<codecVars, streamVars, storeVars, sharedVars, stratVars, closeVars, segVars, extVars,
                   omVars, bookVars, role, shutdown_event, attempt, sleeps, connected,
                   lastConnect, conn, inbox, sentLog, nread, handled, sawShutdown, exitWhy,
                   connFailed, retriedRead, clientWaiting>>

\* accept() returns a client's socket and the handler thread is started
AcceptReturns ==
    /\ pc["accept"] = "wait"
    /\ clientWaiting
    /\ clientWaiting' = FALSE
    /\ pc' = [pc EXCEPT !["accept"] = "head", ![Handler(role)] = "head"]
    /\ UNCHANGED <<codecVars, streamVars, storeVars, sharedVars, stratVars, closeVars, segVars, extVars,
                   omVars, bookVars, role, shutdown_event, attempt, sleeps, connected,
                   lastConnect, conn, inbox, sentLog, nread, handled, sawShutdown, exitWhy,
                   connFailed, retriedRead>>

\* settimeout(1.0): accept() raises socket.timeout and the loop continues
AcceptTimeout ==
    /\ pc["accept"] = "wait"
    /\ ~clientWaiting
    /\ pc' = [pc EXCEPT !["accept"] = "head"]
    /\ UNCHANGED <<codecVars, streamVars, storeVars, sharedVars, stratVars, closeVars, segVars, extVars,
                   omVars, bookVars, role, shutdown_event, attempt, sleeps, connected,
                   lastConnect, conn, inbox, sentLog, nread, handled, sawShutdown, exitWhy,
                   connFailed, retriedRead, clientWaiting>>

\* the while condition of Gateway.handle_client, line 111
SendHead ==
    /\ pc["send"] = "head"
    /\ pc' = [pc EXCEPT !["send"] = IF shutdown_event THEN "exited" ELSE "wait"]
    /\ UNCHANGED <<codecVars, streamVars, storeVars, sharedVars, stratVars, closeVars, segVars, extVars,
                   omVars, bookVars, role, shutdown_event, attempt, sleeps, connected,
                   lastConnect, conn, inbox, sentLog, nread, handled, sawShutdown, exitWhy,
                   connFailed, retriedRead, clientWaiting>>

\* its body, lines 112-143: the sends that are due, then time.sleep(0.01); a
\* sendall that raises ends the handler (return at lines 124 and 138, or the
\* except of line 145)
SendRound(fails) ==
    /\ pc["send"] = "wait"
    /\ pc' = [pc EXCEPT !["send"] = IF fails THEN "exited" ELSE "head"]
    /\ UNCHANGED <<codecVars, streamVars, storeVars, sharedVars, stratVars, closeVars, segVars, extVars,
                   omVars, bookVars, role, shutdown_event, attempt, sleeps, connected,
                   lastConnect, conn, inbox, sentLog, nread, handled, sawShutdown, exitWhy,
                   connFailed, retriedRead, clientWaiting>>

\* the steps of the thread that connects and reads
ReadStep ==
    \/ \E ok \in BOOLEAN : ConnectAttempt(ok)
    \/ ReadHead
    \/ ReadFrame
    \/ ReadEof
    \/ \E next \in {"oserror", "eof"} : ReadError(next)

AcceptStep ==
    \/ AcceptHead
    \/ AcceptReturns
    \/ AcceptTimeout

SendStep ==
    \/ SendHead
    \/ \E fails \in BOOLEAN : SendRound(fails)

RunNext ==
    \/ ReadStep
    \/ AcceptStep
    \/ SendStep
    \/ \E kind \in FrameKinds : PeerSends(kind)
    \/ \E how \in {"peer closed", "reset", "oserror"} : ConnBreaks(how)
    \/ Shutdown
    \/ ClientConnects

\* Every thread of the process keeps running while it has a step to take; the
\* peer, the network and the caller of shutdown() owe nothing.
SpecRun ==
    /\ RunInit
    /\ [][RunNext]_vars
    /\ WF_vars(ReadStep)
    /\ WF_vars(AcceptStep)
    /\ WF_vars(SendStep)

\* every loop of the process has ended
AllLoopsLeft == \A l \in Loops : pc[l] \in {"none", "exited", "fatal"}

\* C25: every accept, read and send loop sees a set shutdown flag and ends,
\* also when no message or connection arrives
C25_FlagObserved == shutdown_event ~> AllLoopsLeft

\* C26: once the read loop has read a SHUTDOWN message it processes no later
\* message of the stream, and every loop of the process, the accept loop of the
\* OrderManager too, ends
C26_InBandShutdown ==
    /\ sawShutdown ~> AllLoopsLeft
    /\ [][sawShutdown => (handled' = handled /\ nread' = nread)]_vars

C28_InSendOrder ==
    LET read == SelectSeq(Take(sentLog, nread), LAMBDA f : f.kind = "data")
    IN  handled = [j \in 1..Len(read) |-> read[j].id]

\* two messages were processed
C28_Witness ==
    /\ Len(handled) >= 2
    /\ role = "strategy"

\* C29: a frame whose body does not decode, or whose processing raises, does
\* not end the read loop; the frames not yet read are the frames sent after
\* it, and the well-formed ones among those read are processed
C29_BadFrameSurvived ==
    /\ exitWhy # "exception"
    /\ inbox = Drop(sentLog, nread)
    /\ (nread > 0 /\ sentLog[nread].kind \in {"garbled", "raises"} /\ pc["read"] = "exited")
           => exitWhy \in {"flag", "connection error"}
    /\ \A j \in 1..nread :
           sentLog[j].kind = "data" => \E h \in 1..Len(handled) : handled[h] = j

\* a well-formed frame was processed after a frame that was not
C29_Witness ==
    /\ nread >= 2
    /\ sentLog[nread - 1].kind \in {"garbled", "raises"}
    /\ sentLog[nread].kind = "data"
    /\ handled # <<>>
    /\ handled[Len(handled)] = nread
    /\ pc["read"] \in {"head", "wait"}

\* C30: a failed recv ends the read loop, which closes the socket on its way
\* out, and read_message is never called again on the failed connection
C30_ConnectionErrorEndsLoop ==
    /\ connFailed ~> (pc["read"] = "exited")
    /\ [](~retriedRead)

\* ------------------------------------------------------------------------
\* The end of OrderBook.run (orderbook.py lines 98-137)
\* ------------------------------------------------------------------------
\* what ends the message loop: a SHUTDOWN message (lines 124-126) or a
\* ConnectionError of read_message on a closed stream (lines 128-130)
LoopEnds == {"shutdown", "closed"}

\* faulty variant of SegmentAfterRunEnds: the finally block also unlinks
SegmentAfterRunEndsUnlinked(exists) == FALSE

\* lines 134-137 and shared_memory.py lines 145-148: the finally block calls
\* gateway_socket.close() and self.shm.close(); close() unmaps the handle and
\* leaves the name and the segment in place
SegmentAfterRunEnds(exists) == exists

\* the loop is left and the finally block runs
BookLoopEnds(why) ==
    /\ bookLoop = "running"
    /\ bookLoop' = why
    /\ bookSocket' = "closed"
    /\ handleGen' = 0
    /\ segExists' = SegmentAfterRunEnds(segExists)
    /\ endSnapshot' = ReadOf(shmHeader, shmPayload)
    /\ UNCHANGED <<codecVars, streamVars, storeVars, sharedVars, stratVars, closeVars,
                   procVars, gwVars, thVars, seenVars, attVars, segGen, openCount, lastOpen,
                   bestResult>>

\* a reader whose handle was attached while the OrderBook ran calls
\* read_orderbook after the OrderBook's loop has ended
ReaderReadsOn ==
    /\ bookLoop # "running"
    /\ ReadOrderbook

BookRunNext ==
    \/ OrderBookNext
    \/ \E why \in LoopEnds : BookLoopEnds(why)
    \/ ReaderReadsOn

SpecBookRun == Init /\ [][BookRunNext]_vars

\* the segment holds the bytes of the write made last
StoreHoldsLastWrite ==
    lastWrite.kind = "snapshot" =>
        LET json_bytes == EncodeBook(lastWrite.bids, lastWrite.asks)
        IN  /\ shmHeader = Header(lastWrite.timestamp, Len(lastWrite.bids), Len(lastWrite.asks))
            /\ Take(shmPayload, Len(json_bytes)) = json_bytes

\* C31: once the OrderBook's loop has ended on a SHUTDOWN message or on a
\* closed stream, its socket and its store handle are closed and the segment
\* is not unlinked: it still exists under its name, it holds the bytes of the
\* last write, and an attached reader's read_orderbook returns what a read
\* returned when the loop ended
C31_LoopEndKeepsSegment ==
    bookLoop # "running" =>
        /\ bookLoop \in LoopEnds
        /\ bookSocket = "closed"
        /\ handleGen = 0
        /\ segExists
        /\ segGen = 1
        /\ StoreHoldsLastWrite
        /\ ReadOf(shmHeader, shmPayload) = endSnapshot
        /\ readFresh => readResult = endSnapshot

\* the loop ended after a book was published, and a reader has read that
\* snapshot since
C31_Witness ==
    /\ bookLoop = "shutdown"
    /\ bookCount > 0
    /\ readFresh
    /\ readResult.kind = "snapshot"
    /\ readResult.bids = lastWrite.bids
    /\ readResult.asks = lastWrite.asks
    /\ lastWrite.bids # <<>>

\* ------------------------------------------------------------------------
\* read_orderbook on the contents a segment can hold (shared_memory.py
\* lines 90-128)
\* ------------------------------------------------------------------------
\* the books whose writes are cut short below
TornBooks ==
    {EncodeBook(<<>>, <<LevelB>>), EncodeBook(<<LevelA>>, <<>>),
     EncodeBook(<<LevelA, LevelC>>, <<LevelB>>)}

\* payloads nobody's write_orderbook produced: {} and []
ForeignPayloads == {<<123, 125>>, <<91, 93>>}

\* line 88 while it copies: the first k bytes of the new payload lie over the
\* payload of the write before
TornPayload(old, new, k) ==
    PayloadAfterWrite(PayloadAfterWrite(ZeroPayload, old), Take(new, Min(k, Len(new))))

ContentPayloads ==
    {TornPayload(old, new, k) : old \in TornBooks, new \in TornBooks, k \in 0..(MEMORY_SIZE - HEADER_SIZE)}
        \cup {PayloadAfterWrite(ZeroPayload, p) : p \in ForeignPayloads}

\* a segment in any of these states, with the zero timestamp or a set one
ContentInit ==
    /\ CodecIdle
    /\ StreamIdle
    /\ HandlesOpened
    /\ StrategyCreated
    /\ StreamOpen
    /\ SegmentCreated
    /\ ProcessesCreated
    /\ shmHeader \in {ZeroHeader, Header(1, 0, 0)}
    /\ shmPayload \in ContentPayloads
    /\ clock = 2
    /\ lastWriteCall = NoWriteCall
    /\ lastWrite = NoSnapshot
    /\ readResult = NoSnapshot
    /\ readFresh = FALSE

\* one call of read_orderbook
ContentRead ==
    /\ ~readFresh
    /\ ReadOrderbook

SpecContent == ContentInit /\ [][ContentRead]_vars

\* C32: read_orderbook does not raise, whatever the segment holds, and returns
\* None when the timestamp is set and the payload up to its first null byte
\* does not parse
C32_ReadNeverRaises ==
    readFresh =>
        /\ readResult.kind # "raise"
        /\ (shmHeader.timestamp # 0 /\ ~Loads(UpToNull(shmPayload)).ok) =>
              readResult = NoSnapshot

\* ------------------------------------------------------------------------
\* Gateway.handle_client: what one connected client is sent (gateway.py
\* lines 37-149)
\* ------------------------------------------------------------------------
\* passes of the handler's while loop
MaxRounds == 2

\* Config.SYMBOLS in its order (the model keeps two of the five symbols)
SymbolOrder == <<"AAPL", "GOOGL">>

SymbolBytes == [AAPL |-> <<65, 65, 80, 76>>, GOOGL |-> <<71, 79, 79, 71, 76>>]

\* range(5), line 53: the levels of each side of a generated book
BOOK_LEVELS == 5

\* a price or size of whole cents as the float round(x, 2) gives: 199.8,
\* 199.75, 200.0
FloatOfCents(c) ==
    JFloat(1, c \div 100,
           IF c % 100 = 0 THEN <<0>>
           ELSE IF c % 10 = 0 THEN <<(c % 100) \div 10>>
           ELSE <<(c % 100) \div 10, c % 10>>)

\* generate_market_data, lines 37-67, with the values random.uniform and
\* random.randint draw as inputs; base prices are whole multiples of 100 so
\* that the spread of 0.1% is a whole number of cents
MarketDataOf(symbol, tick, base, size, volume) ==
    LET spread == base \div 1000
    IN  JDict(<< <<<<115, 121, 109, 98, 111, 108>>, JStr(SymbolBytes[symbol])>>,
                 <<<<116, 105, 109, 101, 115, 116, 97, 109, 112>>, JFloat(1, tick, <<5>>)>>,
                 <<KeyBids, JList([j \in 1..BOOK_LEVELS |->
                        JList(<<FloatOfCents(base - spread - (j - 1) * 10),
                                FloatOfCents(size)>>)])>>,
                 <<KeyAsks, JList([j \in 1..BOOK_LEVELS |->
                        JList(<<FloatOfCents(base + spread + (j - 1) * 10),
                                FloatOfCents(size)>>)])>>,
                 <<<<108, 97, 115, 116, 95, 112, 114, 105, 99, 101>>, FloatOfCents(base)>>,
                 <<<<118, 111, 108, 117, 109, 101>>, JInt(volume)>> >>)

\* the three sentiments of line 77 with their title-cased forms and one score
\* of each range of lines 81-86, rounded to three places
Sentiments ==
    {[name |-> <<112, 111, 115, 105, 116, 105, 118, 101>>, title |-> <<80, 111, 115, 105, 116, 105, 118, 101>>, score |-> JFloat(1, 1, <<0>>)],
     [name |-> <<110, 101, 103, 97, 116, 105, 118, 101>>, title |-> <<78, 101, 103, 97, 116, 105, 118, 101>>, score |-> JFloat(-1, 0, <<3>>)],
     [name |-> <<110, 101, 117, 116, 114, 97, 108>>, title |-> <<78, 101, 117, 116, 114, 97, 108>>, score |-> JFloat(1, 0, <<1, 2, 5>>)]}

\* generate_news_sentiment, lines 69-94
NewsOf(symbol, tick, sentiment) ==
    JDict(<< <<<<115, 121, 109, 98, 111, 108>>, JStr(SymbolBytes[symbol])>>,
             <<<<116, 105, 109, 101, 115, 116, 97, 109, 112>>, JFloat(1, tick, <<5>>)>>,
             <<<<115, 101, 110, 116, 105, 109, 101, 110, 116>>, JStr(sentiment.name)>>,
             <<<<115, 99, 111, 114, 101>>, sentiment.score>>,
             <<<<104, 101, 97, 100, 108, 105, 110, 101>>, JStr(sentiment.title \o <<32, 110, 101, 119, 115, 32, 102, 111, 114, 32>> \o SymbolBytes[symbol])>> >>)

\* faulty variant of NewsMessage: the news goes out under the SHUTDOWN tag
NewsMessageShutdown(news) == Message(8, news)

\* line 128: Message(MessageType.NEWS_SENTIMENT, news)
NewsMessage(news) == Message(2, news)

\* line 117: Message(MessageType.MARKET_DATA, market_data)
MarketDataMessage(market_data) == Message(1, market_data)

\* one frame on the client's stream and what the client's read_message makes
\* of it: it takes the four bytes of the prefix, that many bytes of body, and
\* deserializes the body
FrameSent(m) ==
    LET frame == Serialize(m)
    IN  [frame |-> frame,
         length |-> Unpack32(Take(frame, 4)),
         read |-> Deserialize(SubSeq(frame, 5, 4 + Unpack32(Take(frame, 4))))]

\* Gateway.run, lines 165-178: accept returns and the handler thread starts
GatewayAccepts ==
    /\ gwPc = "none"
    /\ gwPc' = "loop"
    /\ UNCHANGED <<codecVars, streamVars, storeVars, sharedVars, stratVars, closeVars, segVars,
                   procVars, endVars, thVars, seenVars, attVars, gwRounds, gwFrames>>

\* what random.uniform(100, 500) of line 45 draws, in cents
BasePrices == {20000}

\* the frames of one pass, lines 115-135, in the order they are sent
RoundFrames(md_due, news_due, base, news_symbol, sentiment, tick) ==
    (IF md_due
     THEN [j \in 1..Len(SymbolOrder) |->
              FrameSent(MarketDataMessage(MarketDataOf(SymbolOrder[j], tick, base[j], 10000,
                                                       1000)))]
     ELSE <<>>)
    \o (IF news_due THEN <<FrameSent(NewsMessage(NewsOf(news_symbol, tick, sentiment)))>>
        ELSE <<>>)

\* one pass of the loop of lines 111-142.  last_market_data_time and
\* last_news_time start at 0 (lines 108-109), so on the first pass both
\* intervals have elapsed.  sendall can fail on a client that has gone
\* (lines 121-123 and 132-134): the frames before the failing one are out and
\* the handler returns
GatewayRound(md_due, news_due, base, news_symbol, sentiment, sent_before_failure) ==
    LET frames == RoundFrames(md_due, news_due, base, news_symbol, sentiment, gwRounds + 1)
    IN  /\ gwPc = "loop"
        /\ gwRounds < MaxRounds
        /\ gwRounds = 0 => (md_due /\ news_due)
        /\ sent_before_failure <= (IF md_due THEN Len(SymbolOrder) ELSE 0)
                                      + (IF news_due THEN 1 ELSE 0)
        /\ gwRounds' = gwRounds + 1
        /\ gwFrames' = gwFrames \o Take(frames, sent_before_failure)
        /\ gwPc' = IF sent_before_failure < Len(frames) THEN "broken" ELSE "loop"
        /\ UNCHANGED <<codecVars, streamVars, storeVars, sharedVars, stratVars, closeVars,
                       segVars, procVars, endVars, thVars, seenVars, attVars>>

\* line 111: the handler finds shutdown_event set and leaves
GatewayLeaves ==
    /\ gwPc = "loop"
    /\ gwPc' = "left"
    /\ UNCHANGED <<codecVars, streamVars, storeVars, sharedVars, stratVars, closeVars, segVars,
                   procVars, endVars, thVars, seenVars, attVars, gwRounds, gwFrames>>

\* what the generators of one pass draw; a generator that is not called draws
\* nothing, which the first value of each set stands for
RoundInputs ==
    {in \in [md_due : BOOLEAN, news_due : BOOLEAN, base : [1..Len(SymbolOrder) -> BasePrices],
              news_symbol : Symbols, sentiment : Sentiments] :
        in.news_due \/ (in.news_symbol = "AAPL" /\ in.sentiment.score = JFloat(1, 1, <<0>>))}

GatewayNext ==
    \/ GatewayAccepts
    \/ \E in \in RoundInputs, sent_before_failure \in 0..(Len(SymbolOrder) + 1) :
          GatewayRound(in.md_due, in.news_due, in.base, in.news_symbol, in.sentiment,
                       sent_before_failure)
    \/ GatewayLeaves

SpecGateway == Init /\ [][GatewayNext]_vars

\* C33: every frame the Gateway has sent to the client reads as a message of
\* kind MARKET_DATA or NEWS_SENTIMENT whose payload is a dictionary, and after
\* the first pass of the handler, in which the client sent nothing, the client
\* has been sent a frame for every symbol and one news frame, unless the
\* client had gone
C33_FeedFramesOnly ==
    /\ \A j \in 1..Len(gwFrames) :
          /\ gwFrames[j].length = Len(gwFrames[j].frame) - 4
          /\ gwFrames[j].read.ok
          /\ gwFrames[j].read.msg.msg_type \in {1, 2}
          /\ gwFrames[j].read.msg.data.k = "dict"
    /\ (gwRounds >= 1 /\ gwPc # "broken") =>
          /\ Len(gwFrames) >= Len(SymbolOrder) + 1
          /\ gwFrames[1].read.msg.msg_type = 1

\* the client has been sent market data and a news item, and reads the news
\* item as sent
C33_Witness ==
    /\ gwRounds = 1
    /\ gwPc = "loop"
    /\ Len(gwFrames) = Len(SymbolOrder) + 1
    /\ gwFrames[3].read.msg.msg_type = 2
    /\ HasKey(gwFrames[3].read.msg.data, <<115, 99, 111, 114, 101>>)
    /\ DictGet(gwFrames[3].read.msg.data, <<115, 99, 111, 114, 101>>) = JFloat(-1, 0, <<3>>)
    /\ DictGet(gwFrames[1].read.msg.data, <<115, 121, 109, 98, 111, 108>>) = JStr(SymbolBytes["AAPL"])

\* ------------------------------------------------------------------------
\* OrderManager: several handler threads in process_order (ordermanager.py
\* lines 97-118, 120-150, 167-179)
\* ------------------------------------------------------------------------
\* ORDER messages each connection's handler reads
MaxThreadOrders == 1

\* the order a connection sends: well-formed, with the connection's number as
\* its identifier
ThreadOrder(t) == CHOOSE o \in OrderInputs : o.shape = "order" /\ o.order_id = t

\* the attribute each += of lines 107, 112 and 113 loads and stores
CounterAt ==
    [load_orders |-> "total_orders", store_orders |-> "total_orders",
     load_executed |-> "total_executed", store_executed |-> "total_executed",
     load_volume |-> "total_volume", store_volume |-> "total_volume"]

\* where a thread stands after each step
AfterStep ==
    [load_orders |-> "store_orders", store_orders |-> "execute",
     load_executed |-> "store_executed", store_executed |-> "load_volume",
     load_volume |-> "store_volume", store_volume |-> "log"]

CounterValue(name) ==
    CASE name = "total_orders" -> total_orders
      [] name = "total_executed" -> total_executed
      [] name = "total_volume" -> total_volume

\* handle_client lines 133-137 and process_order line 106: the handler of
\* connection t reads an ORDER message and appends it to self.orders
ThBegin(t) ==
    /\ thPc[t] = "none"
    /\ Cardinality({j \in 1..Len(orders) : orders[j].order_id = t}) < MaxThreadOrders
    /\ orders' = Append(orders, ThreadOrder(t))
    /\ thPc' = [thPc EXCEPT ![t] = "load_orders"]
    /\ UNCHANGED <<codecVars, streamVars, storeVars, sharedVars, stratVars, closeVars, segVars,
                   procVars, endVars, gwVars, seenVars, attVars, thReg, processed>>

\* the first half of self.total_orders += 1 (and of the two other +=): the
\* attribute is loaded.  No lock is held, and the interpreter can run another
\* thread before the sum is stored
ThLoad(t) ==
    /\ thPc[t] \in {"load_orders", "load_executed", "load_volume"}
    /\ thReg' = [thReg EXCEPT ![t] = CounterValue(CounterAt[thPc[t]])]
    /\ thPc' = [thPc EXCEPT ![t] = AfterStep[thPc[t]]]
    /\ UNCHANGED <<codecVars, streamVars, storeVars, sharedVars, stratVars, closeVars, segVars,
                   procVars, endVars, gwVars, seenVars, attVars, orders, processed>>

\* the second half: the loaded value plus the increment is stored
ThStore(t) ==
    LET order == ThreadOrder(t)
    IN  /\ thPc[t] \in {"store_orders", "store_executed", "store_volume"}
        /\ total_orders' = IF thPc[t] = "store_orders" THEN thReg[t] + 1 ELSE total_orders
        /\ total_executed' = IF thPc[t] = "store_executed" THEN thReg[t] + 1
                             ELSE total_executed
        /\ total_volume' = IF thPc[t] = "store_volume"
                           THEN thReg[t] + order.quantity * order.price
                           ELSE total_volume
        /\ thPc' = [thPc EXCEPT ![t] = AfterStep[thPc[t]]]
        /\ UNCHANGED <<codecVars, streamVars, storeVars, sharedVars, stratVars, closeVars,
                       segVars, endVars, gwVars, seenVars, attVars, bookVars, runVars, thReg,
                       orders, processed, executed_trades, trade_log, omOpen, omCount,
                       omEvent>>

\* lines 110-111: execute_order (with no slippage) and
\* self.executed_trades.append(execution)
ThExecute(t) ==
    /\ thPc[t] = "execute"
    /\ executed_trades' = Append(executed_trades, ExecuteOrder(ThreadOrder(t), ThreadOrder(t).price))
    /\ thPc' = [thPc EXCEPT ![t] = "load_executed"]
    /\ UNCHANGED <<codecVars, streamVars, storeVars, sharedVars, stratVars, closeVars, segVars,
                   endVars, gwVars, seenVars, attVars, bookVars, runVars, thReg, orders,
                   processed, total_orders, total_executed, total_volume, trade_log, omOpen,
                   omCount, omEvent>>

\* lines 116-118: log_trade, and process_order returns to the handler's loop
ThLog(t) ==
    /\ thPc[t] = "log"
    /\ trade_log' = Append(trade_log, executed_trades[CHOOSE j \in 1..Len(executed_trades) :
                                                          executed_trades[j].order_id = t])
    /\ processed' = processed + 1
    /\ thPc' = [thPc EXCEPT ![t] = "none"]
    /\ UNCHANGED <<codecVars, streamVars, storeVars, sharedVars, stratVars, closeVars, segVars,
                   endVars, gwVars, seenVars, attVars, bookVars, runVars, thReg, orders,
                   total_orders, total_executed, total_volume, executed_trades, omOpen,
                   omCount, omEvent>>

ThreadsNext ==
    \E t \in Threads : ThBegin(t) \/ ThLoad(t) \/ ThStore(t) \/ ThExecute(t) \/ ThLog(t)

SpecThreads == Init /\ [][ThreadsNext]_vars

\* C34: whenever every handler thread is between two messages, total_orders
\* equals the number of ORDER messages processed and the length of
\* self.orders, and total_executed equals the length of self.executed_trades
C34_NoLostUpdate ==
    (\A t \in Threads : thPc[t] = "none") =>
        /\ total_orders = processed
        /\ total_orders = Len(orders)
        /\ total_executed = Len(executed_trades)

\* ------------------------------------------------------------------------
\* Messages whose processing raises
\* ------------------------------------------------------------------------
\* the ORDER message processed last raised in process_order
OrderRaised == omEvent.kind = "order" /\ omEvent.execution.status # "FILLED"

\* C35: an ORDER message whose processing raises leaves the three totals and
\* the list of executions as they were before it was read
C35_RaiseLeavesState ==
    OrderRaised =>
        /\ total_orders = omEvent.before.orders
        /\ total_executed = omEvent.before.executed
        /\ total_volume = omEvent.before.volume
        /\ Len(executed_trades) = omEvent.trades_before


\* C36: once the OrderBook has processed a MARKET_DATA message of the primary
\* symbol, the snapshot read from the store has the bid and ask levels of the
\* local entry of the primary symbol
C36_StoreMatchesLocal ==
    PrimarySymbol \in DOMAIN order_books =>
        LET stored == ReadOf(shmHeader, shmPayload)
        IN  /\ stored.kind = "snapshot"
            /\ stored.bids = order_books[PrimarySymbol].bids
            /\ stored.asks = order_books[PrimarySymbol].asks

\* ------------------------------------------------------------------------
\* Strategy: what a signal needs, and what a message touches
\* ------------------------------------------------------------------------
\* the MARKET_DATA message processed last made generate_signal return a signal
SignalFired == lastEvent.kind = "market" /\ lastEvent.signal.action # "NONE"

\* C37: with the thresholds of Config and scores within [-1.0, 1.0], a signal
\* for a symbol comes only when the Strategy has processed at least two
\* NEWS_SENTIMENT messages and at least two MARKET_DATA messages with
\* last_price > 0 for that symbol, the one that fired included
C37_NoEarlySignal ==
    SignalFired =>
        /\ news_seen[lastEvent.symbol] >= 2
        /\ prices_seen[lastEvent.symbol] >= 2

\* a signal on the second priced message after exactly two news items
C37_Witness ==
    /\ SignalFired
    /\ news_seen[lastEvent.symbol] = 2
    /\ prices_seen[lastEvent.symbol] = 2
    /\ lastEvent.signal.action = "BUY"

\* the entry of symbol s in a dict is what it was in the dict before
SameEntry(after, before, s) ==
    /\ (s \in DOMAIN after) = (s \in DOMAIN before)
    /\ s \in DOMAIN after => after[s] = before[s]

\* C38: a MARKET_DATA or NEWS_SENTIMENT message for one symbol leaves the
\* previous price and the sentiment of every other symbol as they were; a
\* NEWS_SENTIMENT message leaves every previous price, and a MARKET_DATA
\* message every sentiment, as it was
C38_PerSymbolState ==
    lastEvent.kind \in {"market", "news"} =>
        /\ \A s \in Symbols \ {lastEvent.symbol} :
              /\ SameEntry(last_prices, lastEvent.prices_before, s)
              /\ SameEntry(sentiment_scores, lastEvent.sentiments_before, s)
        /\ lastEvent.kind = "news" => last_prices = lastEvent.prices_before
        /\ lastEvent.kind = "market" => sentiment_scores = lastEvent.sentiments_before

\* a news item for one symbol was processed while the other symbol had a
\* previous price and a sentiment of its own
C38_Witness ==
    /\ lastEvent.kind = "news"
    /\ lastEvent.symbol = "AAPL"
    /\ "GOOGL" \in DOMAIN last_prices
    /\ "GOOGL" \in DOMAIN sentiment_scores
    /\ "AAPL" \in DOMAIN sentiment_scores
    /\ sentiment_scores["AAPL"] # sentiment_scores["GOOGL"]
    /\ sentiment_scores["AAPL"] # lastEvent.sentiment_before

\* C39: a MARKET_DATA message makes the Strategy send at most one order; the
\* order of a message is a BUY only with a positive price change and a
\* positive sentiment in its signal data, a SELL only with both negative; and
\* the count of orders sent never exceeds the count of signals
C39_OrdersFollowSignals ==
    /\ order_count <= signal_count
    /\ lastEvent.kind = "market" =>
          /\ order_count - lastEvent.orders_before \in {0, 1}
          /\ signal_count - lastEvent.signals_before \in {0, 1}
          /\ order_count - lastEvent.orders_before <= signal_count - lastEvent.signals_before
          /\ lastEvent.order.side \in {"BUY", "SELL", "NONE"}
          /\ lastEvent.order.side = "BUY" =>
                /\ lastEvent.order.signal_data.price_change.num > 0
                /\ lastEvent.order.signal_data.price_change.den > 0
                /\ lastEvent.order.signal_data.sentiment > 0
          /\ lastEvent.order.side = "SELL" =>
                /\ lastEvent.order.signal_data.price_change.num < 0
                /\ lastEvent.order.signal_data.price_change.den > 0
                /\ lastEvent.order.signal_data.sentiment < 0
    /\ lastEvent.kind # "market" =>
          (order_count = lastEvent.orders_before /\ signal_count = lastEvent.signals_before)

\* a SELL order was sent after a signal whose order could not be sent
C39_Witness ==
    /\ lastEvent.kind = "market"
    /\ lastEvent.send = "sent"
    /\ lastEvent.order.side = "SELL"
    /\ order_count < signal_count

\* ------------------------------------------------------------------------
\* One name, two constructors: the OrderBook opens the store with create=True
\* and the Strategy with create=False (shared_memory.py lines 34-56,
\* orderbook.py lines 37-41, strategy.py lines 226-233)
\* ------------------------------------------------------------------------
\* write_orderbook calls of the OrderBook
MaxAttachWrites == 3

\* read_orderbook calls of the Strategy
MaxAttachReads == 3

\* an earlier run ended without unlinking its segment.  The writes of this run
\* are numbered from 1, a segment never written holds 0 and the segment of the
\* earlier run -1
EarlierRunLeft ==
    /\ attMade = 0
    /\ aggPc = "none"
    /\ engGen = 0
    /\ attMade' = 1
    /\ attName' = 1
    /\ segData' = <<-1>>
    /\ UNCHANGED <<codecVars, streamVars, storeVars, sharedVars, stratVars, closeVars, segVars,
                   procVars, endVars, gwVars, thVars, seenVars, aggPc, aggGen, engGen,
                   aggWrites, engSeen>>

\* lines 36-42, create=True: a segment found under the name is attached,
\* closed and unlinked; FileNotFoundError is passed over
AggUnlinksOld ==
    /\ aggPc = "none"
    /\ aggPc' = "create"
    /\ attName' = 0
    /\ UNCHANGED <<codecVars, streamVars, storeVars, sharedVars, stratVars, closeVars, segVars,
                   procVars, endVars, gwVars, thVars, seenVars, attMade, aggGen, engGen,
                   segData, aggWrites, engSeen>>

\* lines 52-56, create=False: SharedMemory(name=name) maps the segment the name
\* refers to at this moment; without one the constructor raises RuntimeError
\* (-1: no handle), which Strategy.run logs as a warning
SegmentAttached(name) == IF name # 0 THEN name ELSE -1

\* lines 44-48: SharedMemory(name=name, create=True, size=MEMORY_SIZE) makes a
\* new, zero-filled segment under the name
AggCreates ==
    /\ aggPc = "create"
    /\ aggPc' = "open"
    /\ attMade' = attMade + 1
    /\ attName' = attMade + 1
    /\ aggGen' = attMade + 1
    /\ segData' = Append(segData, 0)
    /\ UNCHANGED <<codecVars, streamVars, storeVars, sharedVars, stratVars, closeVars, segVars,
                   procVars, endVars, gwVars, thVars, seenVars, engGen, aggWrites, engSeen>>

\* Strategy.run, lines 226-233
EngAttaches ==
    /\ engGen = 0
    /\ engGen' = SegmentAttached(attName)
    /\ UNCHANGED <<codecVars, streamVars, storeVars, sharedVars, stratVars, closeVars, segVars,
                   procVars, endVars, gwVars, thVars, seenVars, attName, attMade, aggPc,
                   aggGen, segData, aggWrites, engSeen>>

\* the OrderBook's write_orderbook goes to the segment its handle maps; a
\* write made once both constructors have returned is one the Strategy is to
\* see
AggWrites ==
    /\ aggPc = "open"
    /\ aggWrites < MaxAttachWrites
    /\ aggWrites' = aggWrites + 1
    /\ segData' = [segData EXCEPT ![aggGen] = aggWrites + 1]
    /\ engSeen' = [engSeen EXCEPT !.fresh = FALSE,
                                  !.expected = IF engGen > 0 THEN aggWrites + 1 ELSE @]
    /\ UNCHANGED <<codecVars, streamVars, storeVars, sharedVars, stratVars, closeVars, segVars,
                   procVars, endVars, gwVars, thVars, seenVars, attName, attMade, aggPc,
                   aggGen, engGen>>

\* the Strategy's read_orderbook reads the segment its handle maps
EngReads ==
    /\ engGen > 0
    /\ engSeen.reads < MaxAttachReads
    /\ engSeen' = [engSeen EXCEPT !.reads = @ + 1, !.fresh = TRUE, !.found = segData[engGen]]
    /\ UNCHANGED <<codecVars, streamVars, storeVars, sharedVars, stratVars, closeVars, segVars,
                   procVars, endVars, gwVars, thVars, seenVars, attName, attMade, aggPc,
                   aggGen, engGen, segData, aggWrites>>

AttachNext ==
    \/ EarlierRunLeft
    \/ AggUnlinksOld
    \/ AggCreates
    \/ EngAttaches
    \/ AggWrites
    \/ EngReads

SpecAttach == Init /\ [][AttachNext]_vars

\* C40: whatever the order of the two constructors, a read of the Strategy
\* finds the last write the OrderBook made after both had opened the store
C40_ReaderSeesWrites ==
    (engSeen.fresh /\ engSeen.expected > 0) => engSeen.found = engSeen.expected

====
